---------------------------- MODULE Spec2Model ----------------------------
(***************************************************************************)
(* The tool-calling conversation loop of mcp-client-finance-intel          *)
(* (ask_claude_with_mcp in bot.py and main_claude.py), the per-chat        *)
(* history store and the MCPBridge connection lifecycle.                   *)
(*                                                                         *)
(* Python values are modelled as follows.                                  *)
(*   str          a sequence of characters; a character is a one-element   *)
(*                TLA+ string, and a fixed literal of the program may be   *)
(*                kept as one token ("(no text returned)").                *)
(*   list         a sequence.                                              *)
(*   dict         a record, or a function for the histories mapping.       *)
(*   str | list   (a message's "content") a record tagged by "kind".       *)
(* A coroutine is a run r with a program counter pc[r]; one action is the  *)
(* code executed between two awaits.  anthropic_client.messages.create is  *)
(* a synchronous call: while a run waits in it the event loop is blocked   *)
(* and no other run takes a step.                                          *)
(***************************************************************************)
EXTENDS Integers, Sequences, FiniteSets, TLC

(***************************************************************************)
(* Bounds of the model.                                                    *)
(***************************************************************************)
\* model requests answered or failed in one behaviour of Spec
MaxModelCalls == 3
\* tool invocations answered or failed in one behaviour of Spec
MaxToolCalls == 3
\* model requests answered or failed in one behaviour of SpecConc
MaxConcModelCalls == 4
\* tool invocations answered or failed in one behaviour of SpecConc
MaxConcToolCalls == 3
\* exchanges started in one behaviour of SpecSeq
MaxSeqExchanges == 25
\* tool rounds in one behaviour of SpecSeq
MaxSeqToolRounds == 1
\* failed or cancelled exchanges in one behaviour of SpecSeq
MaxSeqFailures == 1
\* connect/close calls in one behaviour of SpecBridge
MaxBridgeCalls == 5
\* model requests while main() polls
MaxMainModelCalls == 3
\* exchanges while the catalog is listed
MaxCatalogExchanges == 3
\* model requests while results of every shape are normalised
MaxNormalizeModelCalls == 3
\* calls of get_agent
MaxAgentCalls == 4
\* messages and model requests of SpecHandler
MaxHandlerMessages == 3
MaxHandlerModelCalls == 3
\* model requests and tool calls of SpecSnapshot
MaxSnapshotModelCalls == 3
MaxSnapshotToolCalls == 2
\* exchanges of SpecLive, and rounds in which its model asks for tools
MaxLiveExchanges == 1
MaxLiveToolRounds == 2
\* exchanges, model requests and tool calls of SpecPair
MaxPairExchanges == 2
MaxPairModelCalls == 3
MaxPairToolCalls == 3

(***************************************************************************)
(* Program constants.                                                      *)
(***************************************************************************)
\* histories[chat_id] = history[-20:]
KeepLast == 20

Runs == {"r1", "r2"}
\* the concurrent callers of get_agent
Callers == {"k1", "k2", "k3"}
ChatIds == {"c1", "c2"}
None == "None"

(***************************************************************************)
(* Strings.                                                                *)
(***************************************************************************)
NL == "\n"
Whitespace == {" ", NL}

\* str.strip(): leading and trailing whitespace removed
RECURSIVE LStrip(_)
LStrip(s) ==
    IF s # <<>> /\ Head(s) \in Whitespace THEN LStrip(Tail(s)) ELSE s

RECURSIVE RStrip(_)
RStrip(s) ==
    IF s # <<>> /\ s[Len(s)] \in Whitespace
    THEN RStrip(SubSeq(s, 1, Len(s) - 1))
    ELSE s

Strip(s) == RStrip(LStrip(s))

\* "\n".join(texts)
RECURSIVE JoinNL(_)
JoinNL(texts) ==
    IF texts = <<>> THEN <<>>
    ELSE IF Len(texts) = 1 THEN texts[1]
    ELSE texts[1] \o <<NL>> \o JoinNL(Tail(texts))

\* the literal "(no text returned)"
NoTextReturned == <<"(no text returned)">>

\* seq[:n]
FirstN(seq, n) == IF Len(seq) <= n THEN seq ELSE SubSeq(seq, 1, n)

\* seq[-n:]
LastN(seq, n) ==
    IF Len(seq) <= n THEN seq ELSE SubSeq(seq, Len(seq) - n + 1, Len(seq))

(***************************************************************************)
(* Content blocks, messages and model responses.                           *)
(***************************************************************************)
TextBlock(t) == [type |-> "text", text |-> t]
ToolUseBlock(i, n) == [type |-> "tool_use", id |-> i, name |-> n]

StrContent(s) == [kind |-> "str", text |-> s, blocks |-> <<>>]
ListContent(b) == [kind |-> "list", text |-> <<>>, blocks |-> b]

\* {"role": "user", "content": user_text}
UserMsg(user_text) == [role |-> "user", content |-> StrContent(user_text)]
\* an assistant message that keeps the text blocks only
AssistantMsgTextOnly(content_blocks) ==
    [role |-> "assistant",
     content |-> ListContent(SelectSeq(content_blocks,
                                       LAMBDA cb : cb.type = "text"))]
\* assistant_msg
AssistantMsg(content_blocks) ==
    [role |-> "assistant", content |-> ListContent(content_blocks)]
\* user_tool_msg
UserToolMsg(tool_results_blocks) ==
    [role |-> "user", content |-> ListContent(tool_results_blocks)]

\* texts gathered from the text blocks, in order
RECURSIVE Texts(_)
Texts(content_blocks) ==
    IF content_blocks = <<>> THEN <<>>
    ELSE IF Head(content_blocks).type = "text"
         THEN <<Head(content_blocks).text>> \o Texts(Tail(content_blocks))
         ELSE Texts(Tail(content_blocks))

\* the final text without the "(no text returned)" fallback
FinalTextNoFallback(content_blocks) == Strip(JoinNL(Texts(content_blocks)))

\* final = "\n".join(texts).strip() or "(no text returned)"
FinalText(content_blocks) ==
    LET joined == Strip(JoinNL(Texts(content_blocks)))
    IN  IF joined = <<>> THEN NoTextReturned ELSE joined

\* position of the first tool_use block at or after position p, 0 if none:
\* the for loop's "if cb_type != 'tool_use': continue"
RECURSIVE NextToolUse(_, _)
NextToolUse(content_blocks, p) ==
    IF p > Len(content_blocks) THEN 0
    ELSE IF content_blocks[p].type = "tool_use" THEN p
    ELSE NextToolUse(content_blocks, p + 1)

(***************************************************************************)
(* Tool results and their normalisation to text segments.                  *)
(***************************************************************************)
TextSegment(t) == [type |-> "text", text |-> t]

\* json.dumps(x, ensure_ascii=False) of a serialisable value named v
JsonDumps(v) == <<"json", v>>
\* repr(x) of a value named v
Repr(v) == <<"repr", v>>

\* A segment of a result's content list:
\*   kind "text"  a mapping (or model) tagged type=text with a text field
\*   kind "dict"  any other mapping; ser tells whether json.dumps accepts it
\*   kind "str"   a plain string
\*   kind "obj"   any other object; ser tells whether json.dumps accepts it
Seg(kind, val, ser) == [kind |-> kind, val |-> val, ser |-> ser]

\* a conversion that serializes every mapping, the text-tagged ones too
ToTextSegmentDumpsAll(segment) ==
    CASE segment.kind \in {"text", "dict"} ->
            IF segment.ser THEN TextSegment(JsonDumps(segment.val))
            ELSE TextSegment(<<"str", segment.val>>)
      [] segment.kind = "str" -> TextSegment(segment.val)
      [] OTHER ->
            IF segment.ser THEN TextSegment(JsonDumps(segment.val))
            ELSE TextSegment(Repr(segment.val))

\* _to_text_segment
ToTextSegment(segment) ==
    CASE segment.kind = "text" -> TextSegment(segment.val)
      [] segment.kind = "dict" ->
            IF segment.ser THEN TextSegment(JsonDumps(segment.val))
            ELSE TextSegment(<<"str", segment.val>>)
      [] segment.kind = "str" -> TextSegment(segment.val)
      [] OTHER ->
            IF segment.ser THEN TextSegment(JsonDumps(segment.val))
            ELSE TextSegment(Repr(segment.val))

\* A value of a result field: None, a string (val is its characters), or
\* another value (val is a name for it) with its Python truth value and
\* whether json.dumps accepts it.
Val(kind, val, truthy, ser) ==
    [kind |-> kind, val |-> val, truthy |-> truthy, ser |-> ser]
NoneVal == Val("none", <<>>, FALSE, TRUE)
StrVal(s) == Val("str", s, s # <<>>, TRUE)

\* A raw result: the object call_tool returned.  has_content tells whether
\* getattr(mcp_result, "content", None) is a list, content is that list and
\* content_other the attribute's value when it is no list; data,
\* structured_content and content_other are NoneVal when the attribute is
\* absent or None; ser tells whether json.dumps accepts the object itself;
\* self is the object as a value.
RawResult(has_content, content, content_other, data, structured_content, ser) ==
    [has_content |-> has_content, content |-> content,
     content_other |-> content_other, data |-> data,
     structured_content |-> structured_content, ser |-> ser,
     self |-> Val("obj", <<"result">>, TRUE, ser)]

\* a raw result that is the value v itself (a string, a mapping, a list,
\* None) and has none of the attributes
PlainResult(v) ==
    [has_content |-> FALSE, content |-> <<>>, content_other |-> NoneVal,
     data |-> NoneVal, structured_content |-> NoneVal, ser |-> v.ser,
     self |-> v]

\* text_payload of a payload value
TextPayload(v) ==
    IF v.kind = "str" THEN v.val
    ELSE IF v.ser THEN JsonDumps(v.val) ELSE Repr(v.val)

\* payload: the first truthy one of data, structured_content and content,
\* else the result itself
Payload(mcp_result) ==
    IF mcp_result.data.truthy THEN mcp_result.data
    ELSE IF mcp_result.structured_content.truthy
         THEN mcp_result.structured_content
    \* a content list reaching this point is empty, hence falsy
    ELSE IF ~mcp_result.has_content /\ mcp_result.content_other.truthy
         THEN mcp_result.content_other
    ELSE mcp_result.self

\* the segments appended in the loop over raw_content
MappedContent(mcp_result) ==
    IF mcp_result.has_content
    THEN [i \in 1..Len(mcp_result.content) |->
              ToTextSegment(mcp_result.content[i])]
    ELSE <<>>

\* the computation without its "if not content_segments" fallback
ContentSegmentsNoFallback(mcp_result) == MappedContent(mcp_result)

\* content_segments as computed from mcp_result
ContentSegments(mcp_result) ==
    IF MappedContent(mcp_result) # <<>> THEN MappedContent(mcp_result)
    ELSE <<TextSegment(TextPayload(Payload(mcp_result)))>>

\* the tool_result block of a successful invocation
OkResultBlock(tool_use_id, mcp_result) ==
    [type |-> "tool_result", tool_use_id |-> tool_use_id,
     content |-> ContentSegments(mcp_result), is_error |-> FALSE]

\* f"Tool error: {repr(e)}"
ToolErrorText(e) == <<"Tool", " ", "error", ":", " ", e>>

\* the except branch with the error flag forgotten
ErrorResultBlockUnflagged(tool_use_id, e) ==
    [type |-> "tool_result", tool_use_id |-> tool_use_id,
     content |-> <<TextSegment(ToolErrorText(e))>>, is_error |-> FALSE]

\* the tool_result block of the except branch
ErrorResultBlock(tool_use_id, e) ==
    [type |-> "tool_result", tool_use_id |-> tool_use_id,
     content |-> <<TextSegment(ToolErrorText(e))>>, is_error |-> TRUE]

(***************************************************************************)
(* The tool catalog.                                                       *)
(***************************************************************************)
\* A remote tool descriptor.  style "attr" is an object with attributes
\* (mcp.types.Tool), style "map" a mapping.  Each field is a Val: Absent
\* when the attribute or key is missing, NoneVal, a string, or (for the
\* schemas) a mapping.
Absent == Val("absent", <<>>, FALSE, TRUE)
DictVal(val, truthy) == Val("dict", val, truthy, TRUE)
EmptyDict == DictVal(<<>>, FALSE)
EmptyStr == StrVal(<<>>)
\* what t.get(...) raises when t is no mapping
AttributeError == Val("AttributeError", <<>>, FALSE, FALSE)

Descriptor(style, name, description, inputSchema, input_schema) ==
    [style |-> style, name |-> name, description |-> description,
     inputSchema |-> inputSchema, input_schema |-> input_schema]

\* a descriptor as the MCP client returns it, all fields filled
Tool(name) ==
    Descriptor("attr", StrVal(name), StrVal(<<"d">>),
               DictVal(<<"schema">>, TRUE), Absent)

\* getattr(t, field, default)
GetAttr(t, field, default) ==
    IF t.style = "attr" /\ t[field].kind # "absent" THEN t[field]
    ELSE default

\* t.get(field, default)
DictGet(t, field, default) ==
    IF t.style # "map" THEN AttributeError
    ELSE IF t[field].kind = "absent" THEN default
    ELSE t[field]

\* Python's "a or b" where b is evaluated only when a is falsy; an operand
\* that raised is passed on
Or(a, b) ==
    IF a = AttributeError THEN a ELSE IF a.truthy THEN a ELSE b

\* the three values claude_tool_schemas computes for a descriptor
NameOf(t) == Or(GetAttr(t, "name", NoneVal), DictGet(t, "name", NoneVal))
DescOf(t) ==
    Or(GetAttr(t, "description", EmptyStr),
       DictGet(t, "description", EmptyStr))
InputSchemaOf(t) ==
    Or(GetAttr(t, "inputSchema", NoneVal),
       Or(GetAttr(t, "input_schema", NoneVal),
          Or(DictGet(t, "inputSchema", NoneVal),
             Or(DictGet(t, "input_schema", NoneVal), EmptyDict))))

\* the body of the for loop raises for t
DescriptorRaises(t) ==
    AttributeError \in {NameOf(t), DescOf(t), InputSchemaOf(t)}

\* the entry appended for t
SchemaEntry(t) ==
    [name |-> NameOf(t), description |-> DescOf(t),
     input_schema |-> InputSchemaOf(t)]

\* the schemas list built from the descriptors, none of which raises
RECURSIVE SchemasOf(_)
SchemasOf(remote) ==
    IF remote = <<>> THEN <<>>
    ELSE IF ~NameOf(Head(remote)).truthy THEN SchemasOf(Tail(remote))
    ELSE <<SchemaEntry(Head(remote))>> \o SchemasOf(Tail(remote))

\* MCPBridge.claude_tool_schemas on the listing the service returned: it
\* raises when the loop body raises for a descriptor, and returns the
\* schemas of the named descriptors otherwise
ClaudeToolSchemas(remote) ==
    IF \E i \in 1..Len(remote) : DescriptorRaises(remote[i])
    THEN [raised |-> TRUE, schemas |-> <<>>]
    ELSE [raised |-> FALSE, schemas |-> SchemasOf(remote)]

\* MCPBridge._cached_tools: None, or the listing last fetched
NoSnapshot == [some |-> FALSE, tools |-> <<>>]
Snapshot(listing) == [some |-> TRUE, tools |-> listing]

\* a list_tools that keeps the snapshot it has
RefreshedOnce(cached, fetched) ==
    IF cached.some THEN cached ELSE Snapshot(fetched)

\* MCPBridge.list_tools: self._cached_tools = await self.client.list_tools()
Refreshed(cached, fetched) == Snapshot(fetched)

(***************************************************************************)
(* State.                                                                  *)
(***************************************************************************)
VARIABLES
    \* module state
    histories,            \* histories: chat id -> list of messages
    connected,            \* MCPBridge._connected
    cached_tools,         \* MCPBridge._cached_tools
    \* locals of each run of ask_claude_with_mcp
    pc,
    chat_id,
    user_text,
    tools,
    history,
    content_blocks,
    pos,                  \* position of the for loop in content_blocks
    tool_results_blocks,
    final,                \* the returned text
    \* the connect/close caller
    bridge_pc,
    \* history variables, read by no action's guard or assignment to the above
    loaded,               \* the stored history each run read at its start
    full,                 \* chat id -> every message of its committed exchanges
    outcomes,             \* per run: how each tool call of this round ended
    trace,                \* per run: the responses (each with the request
                          \* it answers) and tool outcomes it received,
                          \* each outcome with the position of its request
    raised_by,            \* per run: what made it raise
    fetched,              \* per run: the listing client.list_tools() gave it
    client_log,           \* calls of client.__aenter__ / __aexit__ that returned
    bridge_log,           \* connect/close calls made, with what each did
    model_calls,
    tool_calls,
    started,
    tool_rounds,
    failures,
    \* main()
    main_pc,
    main_exit,            \* how the polling (or the session) of main ended
    \* OSSAgentManager and the callers of get_agent
    agent,                \* OSSAgentManager._agent: 0 for None, else the object
    lock,                 \* OSSAgentManager._lock: its holder, or None
    waiters,              \* the callers waiting for the lock, in order
    oss_pc,               \* per caller: where it is in get_agent
    got,                  \* per caller: what get_agent returned to it
    oss_log,              \* the calls of get_tools and create_agent
    \* text_handler
    allowed_ids,          \* ALLOWED_TELEGRAM_USER_IDS
    message,              \* per run: the message its text_handler works on
    sent,                 \* the replies sent, in order
    \* main_claude.py
    cli,                  \* the locals of its ask_claude_with_mcp call
    cli_histories,        \* its histories
    cli_cached_tools      \* its MCPBridge._cached_tools

loop_vars == <<pc, chat_id, user_text, tools, history, content_blocks, pos,
               tool_results_blocks, final, loaded, outcomes, trace,
               raised_by, fetched>>
store_vars == <<histories, full>>
bridge_vars == <<connected, bridge_pc, client_log, bridge_log>>
count_vars == <<model_calls, tool_calls, started, tool_rounds, failures>>
main_vars == <<main_pc, main_exit>>
oss_vars == <<agent, lock, waiters, oss_pc, got, oss_log>>
handler_vars == <<allowed_ids, message, sent>>
\* what ask_claude_with_mcp leaves alone
cli_vars == <<cli, cli_histories, cli_cached_tools>>
env_vars == <<bridge_vars, main_vars, oss_vars, handler_vars, cli_vars>>
vars == <<loop_vars, store_vars, bridge_vars, cached_tools, count_vars,
          main_vars, oss_vars, handler_vars, cli_vars>>

\* one list shared by every chat id
PutShared(h, c, value) == [k \in DOMAIN h \cup {c} |-> value]

\* the user turn appended to the stored list itself
StoredAfterAppend(h, c, msg) ==
    [k \in DOMAIN h \cup {c} |->
        IF k = c THEN (IF c \in DOMAIN h THEN h[c] ELSE <<>>) \o <<msg>>
        ELSE h[k]]

\* histories.get(chat_id, [])
Get(h, c) == IF c \in DOMAIN h THEN h[c] ELSE <<>>
\* histories[chat_id] = value
Put(h, c, value) ==
    [k \in DOMAIN h \cup {c} |-> IF k = c THEN value ELSE h[k]]

\* no message at hand
NoMessage == [some |-> FALSE, user |-> 0, chat |-> None, text |-> <<>>,
              replied |-> FALSE]

\* the state of the module once it is loaded, but for the allow-list
\* main_claude.py: no call of ask_claude_with_mcp is under way
CliIdle ==
    [pc |-> "Idle", session_id |-> None, user_text |-> <<>>, tools |-> <<>>,
     history |-> <<>>, content_blocks |-> <<>>, pos |-> 0,
     tool_results_blocks |-> <<>>, final |-> <<>>, raised_by |-> None,
     trace |-> <<>>]

Loaded ==
    /\ histories = <<>>
    /\ connected = FALSE
    /\ cached_tools = NoSnapshot
    /\ pc = [r \in Runs |-> "Idle"]
    /\ chat_id = [r \in Runs |-> None]
    /\ user_text = [r \in Runs |-> <<>>]
    /\ tools = [r \in Runs |-> <<>>]
    /\ history = [r \in Runs |-> <<>>]
    /\ content_blocks = [r \in Runs |-> <<>>]
    /\ pos = [r \in Runs |-> 0]
    /\ tool_results_blocks = [r \in Runs |-> <<>>]
    /\ final = [r \in Runs |-> <<>>]
    /\ bridge_pc = "Idle"
    /\ loaded = [r \in Runs |-> <<>>]
    /\ full = [c \in ChatIds |-> <<>>]
    /\ outcomes = [r \in Runs |-> <<>>]
    /\ trace = [r \in Runs |-> <<>>]
    /\ raised_by = [r \in Runs |-> None]
    /\ fetched = [r \in Runs |-> NoSnapshot]
    /\ client_log = <<>>
    /\ bridge_log = <<>>
    /\ model_calls = 0
    /\ tool_calls = 0
    /\ started = 0
    /\ tool_rounds = 0
    /\ failures = 0
    /\ main_pc = "NotStarted"
    /\ main_exit = None
    /\ agent = 0
    /\ lock = None
    /\ waiters = <<>>
    /\ oss_pc = [k \in Callers |-> "Idle"]
    /\ got = [k \in Callers |-> 0]
    /\ oss_log = <<>>
    /\ message = [r \in Runs |-> NoMessage]
    /\ sent = <<>>
    /\ cli = CliIdle
    /\ cli_histories = <<>>
    /\ cli_cached_tools = NoSnapshot

\* TELEGRAM_ALLOWED_USER_IDS is not set: the allow-list is empty
Init == Loaded /\ allowed_ids = {}

(***************************************************************************)
(* ask_claude_with_mcp.                                                    *)
(***************************************************************************)
\* The event loop runs r only when no other run blocks it in the synchronous
\* anthropic_client.messages.create.
Scheduled(r) == \A q \in Runs \ {r} : pc[q] # "AwaitingModel"

\* the call: up to the await of mcp_bridge.claude_tool_schemas()
Start(r, c, text) ==
    /\ pc[r] = "Idle"
    /\ UNCHANGED fetched
    /\ Scheduled(r)
    /\ pc' = [pc EXCEPT ![r] = "Listing"]
    /\ chat_id' = [chat_id EXCEPT ![r] = c]
    /\ user_text' = [user_text EXCEPT ![r] = text]
    /\ UNCHANGED trace
    /\ UNCHANGED <<tools, history, content_blocks, pos, tool_results_blocks,
                   final, loaded, outcomes, raised_by, store_vars,
                   env_vars, cached_tools>>

\* the stored list after "history = history + [user turn]": the concatenation
\* builds a new list, the stored one is not touched
StoredAfterLoad(h, c, msg) == h

\* list_tools returned: tools, history loaded, user turn appended, and the
\* first model request issued
ListToolsReturns(r, remote) ==
    /\ pc[r] = "Listing"
    /\ fetched' = [fetched EXCEPT ![r] = Snapshot(remote)]
    /\ Scheduled(r)
    /\ cached_tools' = Refreshed(cached_tools, remote)
    /\ ~ClaudeToolSchemas(cached_tools'.tools).raised
    /\ tools' = [tools EXCEPT ![r] =
                    ClaudeToolSchemas(cached_tools'.tools).schemas]
    /\ loaded' = [loaded EXCEPT ![r] = Get(histories, chat_id[r])]
    /\ history' = [history EXCEPT ![r] =
                      Get(histories, chat_id[r]) \o <<UserMsg(user_text[r])>>]
    /\ histories' = StoredAfterLoad(histories, chat_id[r], UserMsg(user_text[r]))
    /\ pc' = [pc EXCEPT ![r] = "AwaitingModel"]
    /\ UNCHANGED trace
    /\ UNCHANGED <<chat_id, user_text, content_blocks, pos,
                   tool_results_blocks, final, outcomes, raised_by, full,
                   env_vars>>

\* client.list_tools() raised: the exception leaves the call
ListToolsRaises(r) ==
    /\ pc[r] = "Listing"
    /\ UNCHANGED fetched
    /\ Scheduled(r)
    /\ pc' = [pc EXCEPT ![r] = "Raised"]
    /\ raised_by' = [raised_by EXCEPT ![r] = "list_tools"]
    /\ UNCHANGED trace
    /\ UNCHANGED <<chat_id, user_text, tools, history, content_blocks, pos,
                   tool_results_blocks, final, loaded, outcomes, store_vars,
                   env_vars, cached_tools>>

\* list_tools returned and the schema conversion raised: the exception
\* leaves the call
SchemasRaise(r, remote) ==
    /\ pc[r] = "Listing"
    /\ fetched' = [fetched EXCEPT ![r] = Snapshot(remote)]
    /\ Scheduled(r)
    /\ cached_tools' = Refreshed(cached_tools, remote)
    /\ ClaudeToolSchemas(cached_tools'.tools).raised
    /\ pc' = [pc EXCEPT ![r] = "Raised"]
    /\ raised_by' = [raised_by EXCEPT ![r] = "schemas"]
    /\ UNCHANGED trace
    /\ UNCHANGED <<chat_id, user_text, tools, history, content_blocks, pos,
                   tool_results_blocks, final, loaded, outcomes, store_vars,
                   env_vars>>

\* a store that appends the exchange's last two messages to the list that
\* is stored at that moment
CommitAppending(h, c, hist) ==
    Put(h, c, LastN(Get(h, c) \o SubSeq(hist, Len(hist) - 1, Len(hist)),
                    KeepLast))

\* a store that keeps one message less
CommitOneLess(h, c, hist) == Put(h, c, LastN(hist, KeepLast - 1))

\* the history stored before the assistant message is in it
CommitWithoutLast(h, c, hist) ==
    Put(h, c, LastN(SubSeq(hist, 1, Len(hist) - 1), KeepLast))

\* the history stored whole
CommitUntrimmed(h, c, hist) == Put(h, c, hist)

\* histories[chat_id] = history[-20:]
Commit(h, c, hist) == Put(h, c, LastN(hist, KeepLast))

\* {"type": "auto", "disable_parallel_tool_use": True}
ToolChoice == [type |-> "auto", disable_parallel_tool_use |-> TRUE]

\* a request that takes its tools from the bridge's cache when it is built
KwargsFromCache(r) ==
    [model |-> "CLAUDE_MODEL", max_tokens |-> 10000,
     tools |-> ClaudeToolSchemas(cached_tools.tools).schemas,
     tool_choice |-> ToolChoice, messages |-> history[r],
     system |-> "SYSTEM_PROMPT"]

\* kwargs of messages.create, as the while loop builds them in each round
Kwargs(r) ==
    [model |-> "CLAUDE_MODEL", max_tokens |-> 10000, tools |-> tools[r],
     tool_choice |-> ToolChoice, messages |-> history[r],
     system |-> "SYSTEM_PROMPT"]

\* a loop that branches on the blocks of the turn: it executes tools whenever
\* the turn holds a tool_use block and returns otherwise
ModelRepliesByBlocks(r, resp) ==
    /\ pc[r] = "AwaitingModel"
    /\ UNCHANGED fetched
    /\ LET h1 == Append(history[r], AssistantMsg(resp.content))
           p == NextToolUse(resp.content, 1)
       IN  IF p = 0
           THEN /\ final' = [final EXCEPT ![r] = FinalText(resp.content)]
                /\ history' = [history EXCEPT ![r] = h1]
                /\ histories' = Commit(histories, chat_id[r], h1)
                /\ full' = [full EXCEPT ![chat_id[r]] =
                               @ \o SubSeq(h1, Len(loaded[r]) + 1, Len(h1))]
                /\ pc' = [pc EXCEPT ![r] = "Final"]
                /\ UNCHANGED <<pos, tool_results_blocks, outcomes>>
           ELSE /\ tool_results_blocks' = [tool_results_blocks EXCEPT ![r] = <<>>]
                /\ outcomes' = [outcomes EXCEPT ![r] = <<>>]
                /\ pos' = [pos EXCEPT ![r] = p]
                /\ history' = [history EXCEPT ![r] = h1]
                /\ pc' = [pc EXCEPT ![r] = "ExecutingTools"]
                /\ UNCHANGED <<final, store_vars>>
    /\ content_blocks' = [content_blocks EXCEPT ![r] = resp.content]
    /\ trace' = [trace EXCEPT ![r] =
                    Append(@, [ev |-> "reply", resp |-> resp,
                               kwargs |-> Kwargs(r)])]
    /\ UNCHANGED <<chat_id, user_text, tools, loaded, raised_by, env_vars,
                   cached_tools>>

\* messages.create returned resp: the assistant message is appended; then
\* either the final text is returned and the history stored, or the for loop
\* runs up to the await of the first call_tool, or (no tool_use block) to
\* the next model request
ModelReplies(r, resp) ==
    /\ pc[r] = "AwaitingModel"
    /\ UNCHANGED fetched
    /\ LET h1 == Append(history[r], AssistantMsg(resp.content))
           p == NextToolUse(resp.content, 1)
       IN  IF resp.stop_reason # "tool_use"
           THEN /\ final' = [final EXCEPT ![r] = FinalText(resp.content)]
                /\ history' = [history EXCEPT ![r] = h1]
                /\ histories' = Commit(histories, chat_id[r], h1)
                /\ full' = [full EXCEPT ![chat_id[r]] =
                               @ \o SubSeq(h1, Len(loaded[r]) + 1, Len(h1))]
                /\ pc' = [pc EXCEPT ![r] = "Final"]
                /\ UNCHANGED <<pos, tool_results_blocks, outcomes>>
           ELSE /\ tool_results_blocks' = [tool_results_blocks EXCEPT ![r] = <<>>]
                /\ outcomes' = [outcomes EXCEPT ![r] = <<>>]
                /\ pos' = [pos EXCEPT ![r] = p]
                /\ IF p = 0
                   THEN /\ history' = [history EXCEPT ![r] =
                                          Append(h1, UserToolMsg(<<>>))]
                        /\ pc' = pc
                   ELSE /\ history' = [history EXCEPT ![r] = h1]
                        /\ pc' = [pc EXCEPT ![r] = "ExecutingTools"]
                /\ UNCHANGED <<final, store_vars>>
    /\ content_blocks' = [content_blocks EXCEPT ![r] = resp.content]
    /\ trace' = [trace EXCEPT ![r] =
                    Append(@, [ev |-> "reply", resp |-> resp,
                               kwargs |-> Kwargs(r)])]
    /\ UNCHANGED <<chat_id, user_text, tools, loaded, raised_by, env_vars,
                   cached_tools>>

\* messages.create raised: the exception leaves the call
ModelRaises(r) ==
    /\ pc[r] = "AwaitingModel"
    /\ UNCHANGED fetched
    /\ pc' = [pc EXCEPT ![r] = "Raised"]
    /\ raised_by' = [raised_by EXCEPT ![r] = "model"]
    /\ UNCHANGED trace
    /\ UNCHANGED <<chat_id, user_text, tools, history, content_blocks, pos,
                   tool_results_blocks, final, loaded, outcomes, store_vars,
                   env_vars, cached_tools>>

\* a for loop that passes over the block after the one it has executed
ContinueSkipping(r, blocks) ==
    LET p == NextToolUse(content_blocks[r], pos[r] + 2)
    IN  /\ pos' = [pos EXCEPT ![r] = p]
        /\ tool_results_blocks' = [tool_results_blocks EXCEPT ![r] = blocks]
        /\ IF p = 0
           THEN /\ history' = [history EXCEPT ![r] =
                                  Append(@, UserToolMsg(blocks))]
                /\ pc' = [pc EXCEPT ![r] = "AwaitingModel"]
           ELSE /\ history' = history
                /\ pc' = pc

\* a loop that returns once the tool calls of a round are done
ContinueReturning(r, blocks) ==
    LET p == NextToolUse(content_blocks[r], pos[r] + 1)
    IN  /\ pos' = [pos EXCEPT ![r] = p]
        /\ tool_results_blocks' = [tool_results_blocks EXCEPT ![r] = blocks]
        /\ IF p = 0
           THEN /\ history' = [history EXCEPT ![r] =
                                  Append(@, UserToolMsg(blocks))]
                /\ pc' = [pc EXCEPT ![r] = "Final"]
           ELSE /\ history' = history
                /\ pc' = pc

\* a loop that keeps one result block per request id: a block replaces the
\* earlier block of the same id
ContinueKeyedById(r, blocks) ==
    LET p == NextToolUse(content_blocks[r], pos[r] + 1)
        last == blocks[Len(blocks)]
        kept == Append(SelectSeq(SubSeq(blocks, 1, Len(blocks) - 1),
                                 LAMBDA b : b.tool_use_id # last.tool_use_id),
                       last)
    IN  /\ pos' = [pos EXCEPT ![r] = p]
        /\ tool_results_blocks' = [tool_results_blocks EXCEPT ![r] = kept]
        /\ IF p = 0
           THEN /\ history' = [history EXCEPT ![r] =
                                  Append(@, UserToolMsg(kept))]
                /\ pc' = [pc EXCEPT ![r] = "AwaitingModel"]
           ELSE /\ history' = history
                /\ pc' = pc

\* the rest of the for loop after a result block was appended: the next
\* tool_use block's call_tool, or the tool-result message and the next
\* model request
Continue(r, blocks) ==
    LET p == NextToolUse(content_blocks[r], pos[r] + 1)
    IN  /\ pos' = [pos EXCEPT ![r] = p]
        /\ tool_results_blocks' = [tool_results_blocks EXCEPT ![r] = blocks]
        /\ IF p = 0
           THEN /\ history' = [history EXCEPT ![r] =
                                  Append(@, UserToolMsg(blocks))]
                /\ pc' = [pc EXCEPT ![r] = "AwaitingModel"]
           ELSE /\ history' = history
                /\ pc' = pc

\* call_tool returned mcp_result
ToolReturns(r, mcp_result) ==
    /\ pc[r] = "ExecutingTools"
    /\ UNCHANGED fetched
    /\ Scheduled(r)
    /\ outcomes' = [outcomes EXCEPT ![r] = Append(@, "returned")]
    /\ trace' = [trace EXCEPT ![r] =
                    Append(@, [ev |-> "returned", at |-> pos[r],
                               mcp_result |-> mcp_result])]
    /\ raised_by' = raised_by
    /\ Continue(r, Append(tool_results_blocks[r],
                   OkResultBlock(content_blocks[r][pos[r]].id, mcp_result)))
    /\ UNCHANGED <<chat_id, user_text, tools, content_blocks, final, loaded,
                   store_vars, env_vars, cached_tools>>

\* an exception as the caller of call_tool catches it: its type, and the
\* tool name and the cause it carries (None when it carries none)
Raised(type, name, cause) == [type |-> type, name |-> name, cause |-> cause]
\* repr(e), named by the type of the exception
ExcRepr(x) == x.type

\* a call_tool that wraps what the remote call raised
CallToolWraps(name, e) == Raised("ToolExecutionError", name, e)

\* MCPBridge.call_tool when client.call_tool raises e: there is no try
\* around the await, the caller catches e itself
CallToolRaises(name, e) == Raised(e, None, None)

\* a loop without the try around the tool call: the exception leaves the call
ToolRaisesUncaught(r, e) ==
    /\ pc[r] = "ExecutingTools"
    /\ Scheduled(r)
    /\ pc' = [pc EXCEPT ![r] = "Raised"]
    /\ raised_by' = [raised_by EXCEPT ![r] = "tool"]
    /\ trace' = [trace EXCEPT ![r] =
                    Append(@, [ev |-> "raised", at |-> pos[r], e |-> e,
                               name |-> content_blocks[r][pos[r]].name,
                               caught |-> Raised(e, None, None)])]
    /\ UNCHANGED <<chat_id, user_text, tools, history, content_blocks, pos,
                   tool_results_blocks, final, loaded, outcomes, fetched,
                   store_vars, env_vars, cached_tools>>

\* call_tool raised e (an Exception): the except branch
ToolRaises(r, e) ==
    /\ pc[r] = "ExecutingTools"
    /\ UNCHANGED fetched
    /\ Scheduled(r)
    /\ outcomes' = [outcomes EXCEPT ![r] = Append(@, "raised")]
    /\ LET caught == CallToolRaises(content_blocks[r][pos[r]].name, e)
       IN  /\ trace' = [trace EXCEPT ![r] =
                           Append(@, [ev |-> "raised", at |-> pos[r], e |-> e,
                                      name |-> content_blocks[r][pos[r]].name,
                                      caught |-> caught])]
           /\ Continue(r, Append(tool_results_blocks[r],
                          ErrorResultBlock(content_blocks[r][pos[r]].id,
                                           ExcRepr(caught))))
    /\ raised_by' = raised_by
    /\ UNCHANGED <<chat_id, user_text, tools, content_blocks, final, loaded,
                   store_vars, env_vars, cached_tools>>

\* the task is cancelled while it awaits: CancelledError is no Exception and
\* leaves the call
Cancel(r) ==
    /\ pc[r] \in {"Listing", "ExecutingTools"}
    /\ UNCHANGED fetched
    /\ Scheduled(r)
    /\ pc' = [pc EXCEPT ![r] = "Cancelled"]
    /\ raised_by' = [raised_by EXCEPT ![r] = "cancel"]
    /\ UNCHANGED trace
    /\ UNCHANGED <<chat_id, user_text, tools, history, content_blocks, pos,
                   tool_results_blocks, final, loaded, outcomes, store_vars,
                   env_vars, cached_tools>>

\* the caller has the result (or the exception); the locals are gone
Return(r) ==
    /\ pc[r] \in {"Final", "Raised", "Cancelled"}
    /\ fetched' = [fetched EXCEPT ![r] = NoSnapshot]
    /\ Scheduled(r)
    /\ pc' = [pc EXCEPT ![r] = "Idle"]
    /\ chat_id' = [chat_id EXCEPT ![r] = None]
    /\ user_text' = [user_text EXCEPT ![r] = <<>>]
    /\ tools' = [tools EXCEPT ![r] = <<>>]
    /\ history' = [history EXCEPT ![r] = <<>>]
    /\ content_blocks' = [content_blocks EXCEPT ![r] = <<>>]
    /\ pos' = [pos EXCEPT ![r] = 0]
    /\ tool_results_blocks' = [tool_results_blocks EXCEPT ![r] = <<>>]
    /\ final' = [final EXCEPT ![r] = <<>>]
    /\ loaded' = [loaded EXCEPT ![r] = <<>>]
    /\ outcomes' = [outcomes EXCEPT ![r] = <<>>]
    /\ trace' = [trace EXCEPT ![r] = <<>>]
    /\ raised_by' = [raised_by EXCEPT ![r] = None]
    /\ UNCHANGED <<store_vars, env_vars, cached_tools>>

(***************************************************************************)
(* text_handler: what the user is sent when the call has ended.            *)
(***************************************************************************)
\* the f-string "Sorry, something went wrong:", a newline and repr(e) between
\* backquotes; the exception is named by where it was raised
FailureReply(e) ==
    <<"Sorry, something went wrong:", NL, "backquote", e, "backquote">>

\* the text text_handler passes to _safe_markdown_reply for run r
Reply(r) ==
    IF pc[r] = "Raised" THEN FailureReply(raised_by[r]) ELSE final[r]

\* a gate that lets everybody through
IsUserAllowedAlways(user_id) == TRUE

\* _is_user_allowed
IsUserAllowed(user_id) == allowed_ids = {} \/ user_id \in allowed_ids

\* the reply to a user who is not allowed
Restricted == <<"Sorry, this bot is restricted to authorized users.">>

\* a reply as recorded: to whose message, in which chat, with what text
Sent(user, chat, text) == [user |-> user, chat |-> chat, text |-> text]

\* a message of a user who is not allowed: the restriction reply is sent and
\* the handler returns
HandlerBlocks(user, chat, text) ==
    /\ ~IsUserAllowed(user)
    /\ sent' = Append(sent, Sent(user, chat, Restricted))
    /\ UNCHANGED <<allowed_ids, message, loop_vars, store_vars, cached_tools,
                   count_vars, bridge_vars, main_vars, oss_vars, cli_vars>>

\* a message of an allowed user: chat_id and the stripped text are taken and
\* the handler awaits the typing action
HandlerAccepts(r, user, chat, text) ==
    /\ IsUserAllowed(user)
    /\ ~message[r].some /\ pc[r] = "Idle"
    /\ message' = [message EXCEPT ![r] =
                      [some |-> TRUE, user |-> user, chat |-> chat,
                       text |-> Strip(text), replied |-> FALSE]]
    /\ UNCHANGED <<allowed_ids, sent, loop_vars, store_vars, cached_tools,
                   count_vars, bridge_vars, main_vars, oss_vars, cli_vars>>

\* the typing action raised: the exception leaves the handler, which is
\* outside its try, and nothing is sent
HandlerTypingRaises(r) ==
    /\ message[r].some /\ ~message[r].replied /\ pc[r] = "Idle"
    /\ message' = [message EXCEPT ![r] = NoMessage]
    /\ UNCHANGED <<allowed_ids, sent, loop_vars, store_vars, cached_tools,
                   count_vars, bridge_vars, main_vars, oss_vars, cli_vars>>

\* the typing action returned: ask_claude_with_mcp(chat_id, user_text)
HandlerAsks(r) ==
    /\ message[r].some /\ ~message[r].replied
    /\ Start(r, message[r].chat, message[r].text)

\* the call has ended, with the answer or with an exception: the reply is
\* sent
HandlerReplies(r) ==
    /\ message[r].some /\ ~message[r].replied
    /\ pc[r] \in {"Final", "Raised"}
    /\ sent' = Append(sent, Sent(message[r].user, message[r].chat, Reply(r)))
    /\ message' = [message EXCEPT ![r].replied = TRUE]
    /\ UNCHANGED <<allowed_ids, loop_vars, store_vars, cached_tools,
                   count_vars, bridge_vars, main_vars, oss_vars, cli_vars>>

\* the handler returns
HandlerEnds(r) ==
    /\ message[r].some /\ message[r].replied /\ pc[r] = "Idle"
    /\ message' = [message EXCEPT ![r] = NoMessage]
    /\ UNCHANGED <<allowed_ids, sent, loop_vars, store_vars, cached_tools,
                   count_vars, bridge_vars, main_vars, oss_vars, cli_vars>>

(***************************************************************************)
(* main_claude.py: its own ask_claude_with_mcp, histories and MCPBridge.   *)
(* One call at a time: run_single makes one, run_interactive awaits each   *)
(* before it reads the next line.                                          *)
(***************************************************************************)
\* the call starts: tools = await mcp_bridge.claude_tool_schemas()
CliStart(session_id, text) ==
    /\ cli.pc = "Idle"
    /\ cli' = [CliIdle EXCEPT !.pc = "Listing", !.session_id = session_id,
                              !.user_text = text]
    /\ UNCHANGED <<cli_histories, cli_cached_tools>>

\* list_tools returned: tools, history loaded, user turn appended, and the
\* first model request issued
CliListToolsReturns(remote) ==
    /\ cli.pc = "Listing"
    /\ cli_cached_tools' = Snapshot(remote)
    /\ ~ClaudeToolSchemas(remote).raised
    /\ cli' = [cli EXCEPT
                 !.tools = ClaudeToolSchemas(remote).schemas,
                 !.history = Get(cli_histories, cli.session_id)
                             \o <<[role |-> "user",
                                   content |-> StrContent(cli.user_text)]>>,
                 !.pc = "AwaitingModel"]
    /\ UNCHANGED cli_histories

\* client.list_tools() raised: the exception leaves the call
CliListToolsRaises ==
    /\ cli.pc = "Listing"
    /\ cli' = [cli EXCEPT !.pc = "Raised", !.raised_by = "list_tools"]
    /\ UNCHANGED <<cli_histories, cli_cached_tools>>

\* kwargs of messages.create
CliKwargs ==
    [model |-> "CLAUDE_MODEL", max_tokens |-> 10000, tools |-> cli.tools,
     tool_choice |-> [type |-> "auto", disable_parallel_tool_use |-> TRUE],
     messages |-> cli.history, system |-> "SYSTEM_PROMPT"]

\* a final text that is not stripped
CliFinalTextUnstripped(blocks) ==
    LET joined == JoinNL(Texts(blocks))
    IN  IF joined = <<>> THEN NoTextReturned ELSE joined

\* final = "\n".join(texts).strip() or "(no text returned)"
CliFinalText(blocks) ==
    LET joined == Strip(JoinNL(Texts(blocks)))
    IN  IF joined = <<>> THEN NoTextReturned ELSE joined

\* histories[session_id] = history[-20:]
CliStore(h, session_id, hist) == Put(h, session_id, LastN(hist, KeepLast))

\* the for loop after a result block was appended: the next tool_use
\* block's call_tool, or the tool-result message and the next model request
CliContinue(c, blocks) ==
    LET p == NextToolUse(c.content_blocks, c.pos + 1)
    IN  [c EXCEPT
           !.pos = p,
           !.tool_results_blocks = blocks,
           !.history = IF p = 0
                       THEN Append(@, [role |-> "user",
                                       content |-> ListContent(blocks)])
                       ELSE @,
           !.pc = IF p = 0 THEN "AwaitingModel" ELSE "ExecutingTools"]

\* messages.create returned resp
CliModelReplies(resp) ==
    /\ cli.pc = "AwaitingModel"
    /\ LET h1 == Append(cli.history,
                        [role |-> "assistant",
                         content |-> ListContent(resp.content)])
           asked == [cli EXCEPT
                       !.content_blocks = resp.content,
                       !.history = h1,
                       !.trace = Append(@, [ev |-> "reply", resp |-> resp,
                                            kwargs |-> CliKwargs])]
       IN  IF resp.stop_reason # "tool_use"
           THEN /\ cli' = [asked EXCEPT !.final = CliFinalText(resp.content),
                                        !.pc = "Final"]
                /\ cli_histories' = CliStore(cli_histories, cli.session_id, h1)
           ELSE /\ cli' = CliContinue([asked EXCEPT !.pos = 0], <<>>)
                /\ UNCHANGED cli_histories
    /\ UNCHANGED cli_cached_tools

\* messages.create raised: the exception leaves the call
CliModelRaises ==
    /\ cli.pc = "AwaitingModel"
    /\ cli' = [cli EXCEPT !.pc = "Raised", !.raised_by = "model"]
    /\ UNCHANGED <<cli_histories, cli_cached_tools>>

\* call_tool returned mcp_result
CliToolReturns(mcp_result) ==
    /\ cli.pc = "ExecutingTools"
    /\ LET cb == cli.content_blocks[cli.pos]
           called == [cli EXCEPT
                        !.trace = Append(@, [ev |-> "returned",
                                             at |-> cli.pos,
                                             mcp_result |-> mcp_result])]
       IN  cli' = CliContinue(called,
                      Append(cli.tool_results_blocks,
                             [type |-> "tool_result", tool_use_id |-> cb.id,
                              content |-> ContentSegments(mcp_result),
                              is_error |-> FALSE]))
    /\ UNCHANGED <<cli_histories, cli_cached_tools>>

\* call_tool raised e (an Exception): the except branch
CliToolRaises(e) ==
    /\ cli.pc = "ExecutingTools"
    /\ LET cb == cli.content_blocks[cli.pos]
           caught == Raised(e, None, None)
           called == [cli EXCEPT
                        !.trace = Append(@, [ev |-> "raised", at |-> cli.pos,
                                             e |-> e, name |-> cb.name,
                                             caught |-> caught])]
       IN  cli' = CliContinue(called,
                      Append(cli.tool_results_blocks,
                             [type |-> "tool_result", tool_use_id |-> cb.id,
                              content |-> <<TextSegment(
                                  ToolErrorText(ExcRepr(caught)))>>,
                              is_error |-> TRUE]))
    /\ UNCHANGED <<cli_histories, cli_cached_tools>>

\* the call has returned or raised, and its locals are gone
CliReturn ==
    /\ cli.pc \in {"Final", "Raised"}
    /\ cli' = CliIdle
    /\ UNCHANGED <<cli_histories, cli_cached_tools>>

(***************************************************************************)
(* Counters that bound a behaviour.                                        *)
(***************************************************************************)
Count(m, t, s, tr, f) ==
    /\ model_calls' = model_calls + m
    /\ tool_calls' = tool_calls + t
    /\ started' = started + s
    /\ tool_rounds' = tool_rounds + tr
    /\ failures' = failures + f

(***************************************************************************)
(* Spec: one conversation, one exchange at a time, every shape of model    *)
(* response and tool outcome.                                              *)
(***************************************************************************)
UserTexts == {<<"q">>}
RemoteTools == {<<Tool(<<"quote">>)>>}
Exceptions == {"ConnectionRefused"}

Response(stop_reason, content) ==
    [stop_reason |-> stop_reason, content |-> content]

\* the responses of the model: content blocks and stop_reason
Responses ==
    { Response("end_turn", <<TextBlock(<<"a">>)>>),
      Response("end_turn", <<>>),
      Response("end_turn", <<TextBlock(<<" ">>)>>),
      Response("end_turn", <<TextBlock(<<" ", "a">>), TextBlock(<<"b", NL>>)>>),
      Response("max_tokens", <<TextBlock(<<"a">>), ToolUseBlock("t1", "quote")>>),
      Response("tool_use", <<ToolUseBlock("t1", "quote")>>),
      Response("tool_use", <<TextBlock(<<"a">>), ToolUseBlock("t1", "quote"),
                             ToolUseBlock("t2", "quote")>>),
      Response("tool_use", <<ToolUseBlock("t1", "quote"),
                             ToolUseBlock("t1", "quote")>>),
      Response("tool_use", <<TextBlock(<<"a">>)>>) }

\* what call_tool returns
RawResults ==
    { RawResult(TRUE, <<Seg("text", <<"x">>, TRUE)>>, NoneVal, NoneVal,
                NoneVal, FALSE),
      RawResult(TRUE, <<>>, NoneVal, NoneVal, NoneVal, FALSE) }

Next ==
    \/ \E text \in UserTexts :
          /\ model_calls < MaxModelCalls
          /\ Start("r1", "c1", text) /\ Count(0, 0, 0, 0, 0)
    \/ \E remote \in RemoteTools :
          ListToolsReturns("r1", remote) /\ Count(0, 0, 0, 0, 0)
    \/ ListToolsRaises("r1") /\ Count(0, 0, 0, 0, 0)
    \/ \E resp \in Responses :
          /\ model_calls < MaxModelCalls
          /\ ModelReplies("r1", resp) /\ Count(1, 0, 0, 0, 0)
    \/ /\ model_calls < MaxModelCalls
       /\ ModelRaises("r1") /\ Count(1, 0, 0, 0, 0)
    \/ \E mcp_result \in RawResults :
          /\ tool_calls < MaxToolCalls
          /\ ToolReturns("r1", mcp_result) /\ Count(0, 1, 0, 0, 0)
    \/ \E e \in Exceptions :
          /\ tool_calls < MaxToolCalls
          /\ ToolRaises("r1", e) /\ Count(0, 1, 0, 0, 0)
    \/ Cancel("r1") /\ Count(0, 0, 0, 0, 0)
    \/ Return("r1") /\ Count(0, 0, 0, 0, 0)

Spec == Init /\ [][Next]_vars

(***************************************************************************)
(* SpecSeq: many exchanges in a row on one conversation, so that the       *)
(* history outgrows the 20 messages kept.                                  *)
(***************************************************************************)
\* the text of the user's message after n answered ones
SeqUserText(n) == <<"q", <<"0", "1", "2">>[(n % 3) + 1]>>

SeqResponses ==
    { Response("end_turn", <<TextBlock(<<"a">>)>>),
      Response("tool_use", <<ToolUseBlock("t1", "quote")>>) }

SeqRawResults ==
    { RawResult(TRUE, <<Seg("text", <<"x">>, TRUE)>>, NoneVal, NoneVal,
                NoneVal, FALSE) }

SeqIsToolUse(resp) == IF resp.stop_reason = "tool_use" THEN 1 ELSE 0

NextSeq ==
    \/ /\ started < MaxSeqExchanges
       /\ Start("r1", "c1", SeqUserText(started - failures))
       /\ Count(0, 0, 1, 0, 0)
    \/ \E remote \in RemoteTools :
          ListToolsReturns("r1", remote) /\ Count(0, 0, 0, 0, 0)
    \/ /\ failures < MaxSeqFailures
       /\ ListToolsRaises("r1") /\ Count(0, 0, 0, 0, 1)
    \/ \E resp \in SeqResponses :
          /\ tool_rounds + SeqIsToolUse(resp) <= MaxSeqToolRounds
          /\ ModelReplies("r1", resp) /\ Count(0, 0, 0, SeqIsToolUse(resp), 0)
    \/ /\ failures < MaxSeqFailures
       /\ ModelRaises("r1") /\ Count(0, 0, 0, 0, 1)
    \/ \E mcp_result \in SeqRawResults :
          ToolReturns("r1", mcp_result) /\ Count(0, 0, 0, 0, 0)
    \/ \E e \in Exceptions :
          ToolRaises("r1", e) /\ Count(0, 0, 0, 0, 0)
    \/ /\ failures < MaxSeqFailures
       /\ Cancel("r1") /\ Count(0, 0, 0, 0, 1)
    \/ Return("r1") /\ Count(0, 0, 0, 0, 0)

SpecSeq == Init /\ [][NextSeq]_vars

(***************************************************************************)
(* SpecConc: two runs at a time, on the same or on different               *)
(* conversations, interleaved at their awaits.                             *)
(***************************************************************************)
NextConc ==
    \/ \E r \in Runs, c \in ChatIds, text \in UserTexts :
          /\ model_calls < MaxConcModelCalls
          /\ Start(r, c, text) /\ Count(0, 0, 0, 0, 0)
    \/ \E r \in Runs, remote \in RemoteTools :
          ListToolsReturns(r, remote) /\ Count(0, 0, 0, 0, 0)
    \/ \E r \in Runs : ListToolsRaises(r) /\ Count(0, 0, 0, 0, 0)
    \/ \E r \in Runs, resp \in SeqResponses :
          /\ model_calls < MaxConcModelCalls
          /\ ModelReplies(r, resp) /\ Count(1, 0, 0, 0, 0)
    \/ \E r \in Runs :
          /\ model_calls < MaxConcModelCalls
          /\ ModelRaises(r) /\ Count(1, 0, 0, 0, 0)
    \/ \E r \in Runs, mcp_result \in SeqRawResults :
          /\ tool_calls < MaxConcToolCalls
          /\ ToolReturns(r, mcp_result) /\ Count(0, 1, 0, 0, 0)
    \/ \E r \in Runs, e \in Exceptions :
          /\ tool_calls < MaxConcToolCalls
          /\ ToolRaises(r, e) /\ Count(0, 1, 0, 0, 0)
    \/ \E r \in Runs : Cancel(r) /\ Count(0, 0, 0, 0, 0)
    \/ \E r \in Runs : Return(r) /\ Count(0, 0, 0, 0, 0)

SpecConc == Init /\ [][NextConc]_vars

(***************************************************************************)
(* SpecCatalog: exchanges whose tool listings differ from call to call and *)
(* hold descriptors of either style, with and without their fields.        *)
(***************************************************************************)
\* a mapping-style descriptor
MapTool(name, description) ==
    Descriptor("map", name, description, DictVal(<<"schema">>, TRUE), Absent)
\* an attribute-style descriptor
AttrTool(name, description) ==
    Descriptor("attr", name, description, DictVal(<<"schema">>, TRUE), Absent)

\* the listings client.list_tools() returns
CatalogListings ==
    { <<>>,
      <<Tool(<<"quote">>)>>,
      <<Tool(<<"quote">>), Tool(<<"news">>)>>,
      <<Tool(<<"quote">>), Tool(<<"quote">>)>>,
      <<MapTool(Absent, StrVal(<<"d">>)), MapTool(StrVal(<<"risk">>), Absent),
        MapTool(EmptyStr, EmptyStr), MapTool(StrVal(<<"news">>), EmptyStr)>>,
      <<MapTool(NoneVal, Absent), Tool(<<"quote">>),
        MapTool(StrVal(<<"risk">>), NoneVal)>>,
      <<Descriptor("map", StrVal(<<"quote">>), StrVal(<<"d">>), Absent,
                   DictVal(<<"schema">>, TRUE)),
        Descriptor("map", StrVal(<<"news">>), StrVal(<<"d">>), Absent,
                   Absent)>>,
      <<Tool(<<"quote">>), AttrTool(StrVal(<<"news">>), NoneVal)>>,
      <<Tool(<<"quote">>), AttrTool(StrVal(<<"news">>), Absent)>>,
      <<AttrTool(NoneVal, StrVal(<<"d">>)), Tool(<<"quote">>)>>,
      <<AttrTool(Absent, StrVal(<<"d">>)), Tool(<<"quote">>)>>,
      <<AttrTool(EmptyStr, StrVal(<<"d">>)), Tool(<<"quote">>)>> }

CatalogResponses == { Response("end_turn", <<TextBlock(<<"a">>)>>) }

NextCatalog ==
    \/ \E text \in UserTexts :
          /\ started < MaxCatalogExchanges
          /\ Start("r1", "c1", text) /\ Count(0, 0, 1, 0, 0)
    \/ \E remote \in CatalogListings :
          ListToolsReturns("r1", remote) /\ Count(0, 0, 0, 0, 0)
    \/ \E remote \in CatalogListings :
          SchemasRaise("r1", remote) /\ Count(0, 0, 0, 0, 0)
    \/ ListToolsRaises("r1") /\ Count(0, 0, 0, 0, 0)
    \/ \E resp \in CatalogResponses :
          ModelReplies("r1", resp) /\ Count(0, 0, 0, 0, 0)
    \/ ModelRaises("r1") /\ Count(0, 0, 0, 0, 0)
    \/ Return("r1") /\ Count(0, 0, 0, 0, 0)

SpecCatalog == Init /\ [][NextCatalog]_vars

(***************************************************************************)
(* SpecSnapshot: two runs whose tool listings differ, so that the bridge's *)
(* cache changes while a run is between two rounds.                        *)
(***************************************************************************)
SnapshotListings ==
    { <<Tool(<<"quote">>)>>, <<Tool(<<"quote">>), Tool(<<"news">>)>> }

NextSnapshot ==
    \/ \E r \in Runs, text \in UserTexts :
          /\ model_calls < MaxSnapshotModelCalls
          /\ Start(r, "c1", text) /\ Count(0, 0, 0, 0, 0)
    \/ \E r \in Runs, remote \in SnapshotListings :
          ListToolsReturns(r, remote) /\ Count(0, 0, 0, 0, 0)
    \/ \E r \in Runs, resp \in SeqResponses :
          /\ model_calls < MaxSnapshotModelCalls
          /\ ModelReplies(r, resp) /\ Count(1, 0, 0, 0, 0)
    \/ \E r \in Runs, mcp_result \in SeqRawResults :
          /\ tool_calls < MaxSnapshotToolCalls
          /\ ToolReturns(r, mcp_result) /\ Count(0, 1, 0, 0, 0)
    \/ \E r \in Runs : Return(r) /\ Count(0, 0, 0, 0, 0)

SpecSnapshot == Init /\ [][NextSnapshot]_vars

(***************************************************************************)
(* SpecLive: every model request and every tool call comes back, and the   *)
(* model asks for tools in a bounded number of rounds only.                *)
(***************************************************************************)
LiveResponses ==
    { Response("end_turn", <<TextBlock(<<"a">>)>>),
      Response("max_tokens", <<TextBlock(<<"a">>), ToolUseBlock("t1", "quote")>>),
      Response("tool_use", <<ToolUseBlock("t1", "quote")>>),
      Response("tool_use", <<TextBlock(<<"a">>), ToolUseBlock("t1", "quote"),
                             ToolUseBlock("t2", "quote")>>),
      Response("tool_use", <<TextBlock(<<"a">>)>>) }

LiveStart ==
    /\ started < MaxLiveExchanges
    /\ Start("r1", "c1", <<"q">>) /\ Count(0, 0, 1, 0, 0)
LiveListed ==
    \E remote \in RemoteTools :
        ListToolsReturns("r1", remote) /\ Count(0, 0, 0, 0, 0)
LiveModelReplies ==
    \E resp \in LiveResponses :
        /\ tool_rounds + SeqIsToolUse(resp) <= MaxLiveToolRounds
        /\ ModelReplies("r1", resp) /\ Count(0, 0, 0, SeqIsToolUse(resp), 0)
LiveToolReturns ==
    \E mcp_result \in SeqRawResults :
        ToolReturns("r1", mcp_result) /\ Count(0, 0, 0, 0, 0)
LiveToolRaises ==
    \E e \in Exceptions : ToolRaises("r1", e) /\ Count(0, 0, 0, 0, 0)
LiveReturn == Return("r1") /\ Count(0, 0, 0, 0, 0)

NextLive ==
    \/ LiveStart
    \/ LiveListed
    \/ LiveModelReplies
    \/ LiveToolReturns
    \/ LiveToolRaises
    \/ LiveReturn

\* what is awaited comes back: the listing, the model's reply, the tool call
SpecLive ==
    /\ Init /\ [][NextLive]_vars
    /\ WF_vars(LiveListed)
    /\ WF_vars(LiveModelReplies)
    /\ WF_vars(LiveToolReturns \/ LiveToolRaises)

(***************************************************************************)
(* SpecHandler: messages of several users arrive at text_handler, with an  *)
(* allow-list that is empty or names one of them.                          *)
(***************************************************************************)
UserIds == {1, 2}
AllowLists == {{}, {1}}
\* the private chat of a user
ChatOf(user) == IF user = 1 THEN "c1" ELSE "c2"
HandlerTexts == {<<" ", "q", NL>>}

\* the messages handled so far, blocked or not
Handled ==
    started + Len(SelectSeq(sent, LAMBDA m : m.text = Restricted))
        + Cardinality({r \in Runs : message[r].some /\ pc[r] = "Idle"
                                        /\ ~message[r].replied})

InitHandler == Loaded /\ allowed_ids \in AllowLists

NextHandler ==
    \/ \E user \in UserIds, text \in HandlerTexts :
          /\ Handled < MaxHandlerMessages
          /\ HandlerBlocks(user, ChatOf(user), text)
    \/ \E r \in Runs, user \in UserIds, text \in HandlerTexts :
          /\ Handled < MaxHandlerMessages
          /\ HandlerAccepts(r, user, ChatOf(user), text)
    \/ \E r \in Runs : HandlerTypingRaises(r)
    \/ \E r \in Runs : HandlerAsks(r) /\ Count(0, 0, 1, 0, 0)
    \/ \E r \in Runs, remote \in RemoteTools :
          ListToolsReturns(r, remote) /\ Count(0, 0, 0, 0, 0)
    \/ \E r \in Runs, resp \in SeqResponses :
          /\ model_calls < MaxHandlerModelCalls
          /\ ModelReplies(r, resp) /\ Count(1, 0, 0, 0, 0)
    \/ \E r \in Runs :
          /\ model_calls < MaxHandlerModelCalls
          /\ ModelRaises(r) /\ Count(1, 0, 0, 0, 0)
    \/ \E r \in Runs, mcp_result \in SeqRawResults :
          ToolReturns(r, mcp_result) /\ Count(0, 1, 0, 0, 0)
    \/ \E r \in Runs : HandlerReplies(r)
    \/ \E r \in Runs :
          /\ message[r].replied
          /\ Return(r) /\ Count(0, 0, 0, 0, 0)
    \/ \E r \in Runs : HandlerEnds(r)

SpecHandler == InitHandler /\ [][NextHandler]_vars

(***************************************************************************)
(* SpecPair: bot.py's loop (run "r1") and main_claude.py's loop side by    *)
(* side.  bot.py's run draws the inputs; main_claude.py's call is given    *)
(* the same ones, in the same order: the session and the user text, the    *)
(* listing, and each model response and tool outcome as bot.py's trace     *)
(* recorded it.  Neither call runs ahead of the other by more than a step. *)
(***************************************************************************)
non_cli_vars == <<loop_vars, store_vars, bridge_vars, cached_tools,
                  count_vars, main_vars, oss_vars, handler_vars>>

PairListings == SnapshotListings

\* both calls have taken the same number of model and tool outcomes
Abreast ==
    /\ cli.pc \notin {"Idle", "Listing"}
    /\ Len(cli.trace) = Len(trace["r1"])

\* the outcome main_claude.py's call is given next
NextOutcome == trace["r1"][Len(cli.trace) + 1]

PairCliFollows(kind) ==
    /\ cli.pc \notin {"Idle", "Listing"}
    /\ pc["r1"] # "Idle"
    /\ Len(cli.trace) < Len(trace["r1"])
    /\ NextOutcome.ev = kind

NextPair ==
    \/ \E text \in UserTexts :
          /\ started < MaxPairExchanges
          /\ cli.pc = "Idle"
          /\ Start("r1", "c1", text) /\ Count(0, 0, 1, 0, 0)
    \/ /\ pc["r1"] = "Listing" /\ cli.pc = "Idle"
       /\ CliStart(chat_id["r1"], user_text["r1"])
       /\ UNCHANGED non_cli_vars
    \/ \E remote \in PairListings :
          /\ cli.pc = "Listing"
          /\ ListToolsReturns("r1", remote) /\ Count(0, 0, 0, 0, 0)
    \/ /\ cli.pc = "Listing"
       /\ ListToolsRaises("r1") /\ Count(0, 0, 0, 0, 0)
    \/ /\ pc["r1"] \notin {"Idle", "Listing"} /\ fetched["r1"].some
       /\ CliListToolsReturns(fetched["r1"].tools)
       /\ UNCHANGED non_cli_vars
    \/ /\ pc["r1"] = "Raised" /\ raised_by["r1"] = "list_tools"
       /\ CliListToolsRaises
       /\ UNCHANGED non_cli_vars
    \/ \E resp \in Responses :
          /\ model_calls < MaxPairModelCalls
          /\ Abreast
          /\ ModelReplies("r1", resp) /\ Count(1, 0, 0, 0, 0)
    \/ /\ model_calls < MaxPairModelCalls
       /\ Abreast
       /\ ModelRaises("r1") /\ Count(1, 0, 0, 0, 0)
    \/ \E mcp_result \in RawResults :
          /\ tool_calls < MaxPairToolCalls
          /\ Abreast
          /\ ToolReturns("r1", mcp_result) /\ Count(0, 1, 0, 0, 0)
    \/ \E e \in Exceptions :
          /\ tool_calls < MaxPairToolCalls
          /\ Abreast
          /\ ToolRaises("r1", e) /\ Count(0, 1, 0, 0, 0)
    \/ /\ PairCliFollows("reply")
       /\ CliModelReplies(NextOutcome.resp)
       /\ UNCHANGED non_cli_vars
    \/ /\ Abreast
       /\ pc["r1"] = "Raised" /\ raised_by["r1"] = "model"
       /\ CliModelRaises
       /\ UNCHANGED non_cli_vars
    \/ /\ PairCliFollows("returned")
       /\ CliToolReturns(NextOutcome.mcp_result)
       /\ UNCHANGED non_cli_vars
    \/ /\ PairCliFollows("raised")
       /\ CliToolRaises(NextOutcome.e)
       /\ UNCHANGED non_cli_vars
    \/ /\ cli.pc \in {"Final", "Raised"}
       /\ Return("r1") /\ Count(0, 0, 0, 0, 0)
    \/ /\ pc["r1"] = "Idle"
       /\ CliReturn
       /\ UNCHANGED non_cli_vars

SpecPair == Init /\ [][NextPair]_vars

(***************************************************************************)
(* SpecNormalize: tool calls that return raw results of every shape.       *)
(***************************************************************************)
NormalizeResults ==
    { \* the result is a string, a mapping, a list, None
      PlainResult(StrVal(<<"x">>)),
      PlainResult(EmptyStr),
      PlainResult(Val("dict", <<"m">>, TRUE, TRUE)),
      PlainResult(Val("dict", <<"m">>, TRUE, FALSE)),
      PlainResult(Val("list", <<"l">>, TRUE, TRUE)),
      PlainResult(Val("list", <<>>, FALSE, TRUE)),
      PlainResult(NoneVal),
      \* an object without the attributes, which json.dumps refuses
      RawResult(FALSE, <<>>, NoneVal, NoneVal, NoneVal, FALSE),
      \* an empty content list, with and without data or structured_content
      RawResult(TRUE, <<>>, NoneVal, NoneVal, NoneVal, FALSE),
      RawResult(TRUE, <<>>, NoneVal, Val("obj", <<"data">>, TRUE, FALSE),
                NoneVal, FALSE),
      RawResult(TRUE, <<>>, NoneVal, Val("int", <<"0">>, FALSE, TRUE),
                Val("dict", <<"sc">>, TRUE, TRUE), FALSE),
      \* content that is no list
      RawResult(FALSE, <<>>, StrVal(<<"c">>), NoneVal, NoneVal, FALSE),
      \* a content list with segments of every kind
      RawResult(TRUE, <<Seg("text", <<"x">>, TRUE), Seg("dict", <<"img">>, TRUE),
                        Seg("dict", <<"d">>, FALSE), Seg("str", <<"s">>, TRUE),
                        Seg("obj", <<"o">>, FALSE), Seg("obj", <<"n">>, TRUE)>>,
                NoneVal, Val("dict", <<"data">>, TRUE, TRUE), NoneVal, FALSE) }

NextNormalize ==
    \/ \E text \in UserTexts :
          /\ model_calls < MaxNormalizeModelCalls
          /\ Start("r1", "c1", text) /\ Count(0, 0, 0, 0, 0)
    \/ \E remote \in RemoteTools :
          ListToolsReturns("r1", remote) /\ Count(0, 0, 0, 0, 0)
    \/ \E resp \in SeqResponses :
          /\ model_calls < MaxNormalizeModelCalls
          /\ ModelReplies("r1", resp) /\ Count(1, 0, 0, 0, 0)
    \/ \E mcp_result \in NormalizeResults :
          ToolReturns("r1", mcp_result) /\ Count(0, 0, 0, 0, 0)
    \/ \E e \in Exceptions :
          ToolRaises("r1", e) /\ Count(0, 0, 0, 0, 0)
    \/ Return("r1") /\ Count(0, 0, 0, 0, 0)

SpecNormalize == Init /\ [][NextNormalize]_vars

(***************************************************************************)
(* MCPBridge.connect and MCPBridge.close, called one after the other.      *)
(* client_log holds the calls of client.__aenter__ ("enter") and           *)
(* client.__aexit__ ("exit") with how each ended.                          *)
(***************************************************************************)
rest_vars == <<loop_vars, store_vars, cached_tools, count_vars, oss_vars,
               handler_vars, cli_vars>>

\* connect() without its "if not self._connected" test
ConnectUnguarded ==
    /\ bridge_pc = "Idle"
    /\ Len(bridge_log) < MaxBridgeCalls
    /\ bridge_log' = Append(bridge_log, "connect")
    /\ bridge_pc' = "Entering"
    /\ UNCHANGED <<connected, client_log, rest_vars>>

\* connect(): up to the await of client.__aenter__(), or to the return when
\* the bridge is connected
Connect ==
    /\ bridge_pc = "Idle"
    /\ Len(bridge_log) < MaxBridgeCalls
    /\ bridge_log' = Append(bridge_log, "connect")
    /\ bridge_pc' = IF ~connected THEN "Entering" ELSE "Idle"
    /\ UNCHANGED <<connected, client_log, rest_vars>>

\* client.__aenter__() returned: self._connected = True
EnterReturns ==
    /\ bridge_pc = "Entering"
    /\ client_log' = Append(client_log, [op |-> "enter", ok |-> TRUE])
    /\ connected' = TRUE
    /\ bridge_pc' = "Idle"
    /\ UNCHANGED <<bridge_log, rest_vars>>

\* client.__aenter__() raised: the exception leaves connect()
EnterRaises ==
    /\ bridge_pc = "Entering"
    /\ client_log' = Append(client_log, [op |-> "enter", ok |-> FALSE])
    /\ bridge_pc' = "Idle"
    /\ UNCHANGED <<connected, bridge_log, rest_vars>>

\* close(): up to the await of client.__aexit__(), or to the return when the
\* bridge is not connected
Close ==
    /\ bridge_pc = "Idle"
    /\ Len(bridge_log) < MaxBridgeCalls
    /\ bridge_log' = Append(bridge_log, "close")
    /\ bridge_pc' = IF connected THEN "Exiting" ELSE "Idle"
    /\ UNCHANGED <<connected, client_log, rest_vars>>

\* client.__aexit__() returned: self._connected = False
ExitReturns ==
    /\ bridge_pc = "Exiting"
    /\ client_log' = Append(client_log, [op |-> "exit", ok |-> TRUE])
    /\ connected' = FALSE
    /\ bridge_pc' = "Idle"
    /\ UNCHANGED <<bridge_log, rest_vars>>

\* client.__aexit__() raised: the exception leaves close()
ExitRaises ==
    /\ bridge_pc = "Exiting"
    /\ client_log' = Append(client_log, [op |-> "exit", ok |-> FALSE])
    /\ bridge_pc' = "Idle"
    /\ UNCHANGED <<connected, bridge_log, rest_vars>>

NextBridge ==
    \/ Connect /\ UNCHANGED main_vars
    \/ EnterReturns /\ UNCHANGED main_vars
    \/ EnterRaises /\ UNCHANGED main_vars
    \/ Close /\ UNCHANGED main_vars
    \/ ExitReturns /\ UNCHANGED main_vars
    \/ ExitRaises /\ UNCHANGED main_vars

SpecBridge == Init /\ [][NextBridge]_vars

(***************************************************************************)
(* main(): connect, then the polling (or the command-line session) inside  *)
(* a try block whose finally clause closes the bridge.  The handlers run   *)
(* while main polls.                                                       *)
(***************************************************************************)
\* how the try block of main can end
MainExits == {"returned", "raised", "interrupted"}

\* main() up to the await inside connect()
MainConnect ==
    /\ main_pc = "NotStarted"
    /\ Connect
    /\ main_pc' = "Connecting"
    /\ UNCHANGED main_exit

\* connect() returned: the try block is entered
MainPolls ==
    /\ main_pc = "Connecting"
    /\ EnterReturns
    /\ main_pc' = "Polling"
    /\ UNCHANGED main_exit

\* connect() raised: the exception leaves main, which is not in the try
\* block yet
MainConnectRaises ==
    /\ main_pc = "Connecting"
    /\ EnterRaises
    /\ main_pc' = "Ended"
    /\ main_exit' = "connect raised"

\* a main whose close() follows the try block without a finally clause
MainCloseOnReturn(exit) ==
    IF exit = "returned"
    THEN Close /\ main_pc' = "Closing"
    ELSE main_pc' = "Ended" /\ UNCHANGED <<bridge_vars, rest_vars>>

\* the finally clause: close(), however the try block ended
MainFinally(exit) ==
    /\ Close
    /\ main_pc' = "Closing"

\* the try block ends: the polling returned, raised, or main was interrupted
\* (cancelled) while it awaited
PollingEnds(exit) ==
    /\ main_pc = "Polling"
    /\ main_exit' = exit
    /\ MainFinally(exit)

\* close() returned: main ends
MainCloseReturns ==
    /\ main_pc = "Closing"
    /\ ExitReturns
    /\ main_pc' = "Ended"
    /\ UNCHANGED main_exit

\* close() raised: the exception leaves main
MainCloseRaises ==
    /\ main_pc = "Closing"
    /\ ExitRaises
    /\ main_pc' = "Ended"
    /\ UNCHANGED main_exit

\* a step of a handler's run while main polls
Polled(step) == main_pc = "Polling" /\ step /\ UNCHANGED main_vars

NextMain ==
    \/ MainConnect
    \/ MainPolls
    \/ MainConnectRaises
    \/ \E exit \in MainExits : PollingEnds(exit)
    \/ MainCloseReturns
    \/ MainCloseRaises
    \/ \E text \in UserTexts :
          /\ model_calls < MaxMainModelCalls
          /\ Polled(Start("r1", "c1", text) /\ Count(0, 0, 0, 0, 0))
    \/ \E remote \in RemoteTools :
          Polled(ListToolsReturns("r1", remote) /\ Count(0, 0, 0, 0, 0))
    \/ Polled(ListToolsRaises("r1") /\ Count(0, 0, 0, 0, 0))
    \/ \E resp \in SeqResponses :
          /\ model_calls < MaxMainModelCalls
          /\ Polled(ModelReplies("r1", resp) /\ Count(1, 0, 0, 0, 0))
    \/ /\ model_calls < MaxMainModelCalls
       /\ Polled(ModelRaises("r1") /\ Count(1, 0, 0, 0, 0))
    \/ \E mcp_result \in SeqRawResults :
          Polled(ToolReturns("r1", mcp_result) /\ Count(0, 0, 0, 0, 0))
    \/ \E e \in Exceptions :
          Polled(ToolRaises("r1", e) /\ Count(0, 0, 0, 0, 0))
    \/ Polled(Cancel("r1") /\ Count(0, 0, 0, 0, 0))
    \/ Polled(Return("r1") /\ Count(0, 0, 0, 0, 0))

SpecMain == Init /\ [][NextMain]_vars

(***************************************************************************)
(* OSSAgentManager.get_agent, called by several tasks at a time.  The lock *)
(* is an asyncio.Lock: acquiring it when it is free and nobody waits does  *)
(* not suspend; a release wakes the first waiter.                          *)
(***************************************************************************)
non_oss_vars == <<loop_vars, store_vars, cached_tools, count_vars,
                  bridge_vars, main_vars, handler_vars, cli_vars>>

\* the calls of get_agent made so far
AgentCalls == Len(SelectSeq(oss_log, LAMBDA ev : ev.op = "get_agent"))

\* the with block entered without the second test
InsideLockUnchecked(k) ==
    /\ lock' = k
    /\ oss_pc' = [oss_pc EXCEPT ![k] = "Fetching"]
    /\ oss_log' = Append(oss_log, [op |-> "get_tools", ok |-> TRUE])
    /\ UNCHANGED got

\* inside the lock, held by k: the second test of self._agent, then the
\* await of mcp_client.get_tools() or the end of the with block
InsideLock(k) ==
    IF agent = 0
    THEN /\ lock' = k
         /\ oss_pc' = [oss_pc EXCEPT ![k] = "Fetching"]
         /\ oss_log' = Append(oss_log, [op |-> "get_tools", ok |-> TRUE])
         /\ UNCHANGED got
    ELSE /\ lock' = None
         /\ oss_pc' = [oss_pc EXCEPT ![k] = "Done"]
         /\ got' = [got EXCEPT ![k] = agent]
         /\ UNCHANGED oss_log

\* get_agent is called by k: the agent is there and is returned, or the lock
\* is taken at once, or k waits for it
GetAgent(k) ==
    /\ oss_pc[k] = "Idle"
    /\ AgentCalls < MaxAgentCalls
    /\ LET logged == Append(oss_log, [op |-> "get_agent", ok |-> TRUE])
       IN  IF agent # 0
           THEN /\ oss_pc' = [oss_pc EXCEPT ![k] = "Done"]
                /\ got' = [got EXCEPT ![k] = agent]
                /\ oss_log' = logged
                /\ UNCHANGED <<lock, waiters>>
           ELSE IF lock = None /\ waiters = <<>>
           THEN /\ lock' = k
                /\ oss_pc' = [oss_pc EXCEPT ![k] = "Fetching"]
                /\ oss_log' = Append(logged, [op |-> "get_tools", ok |-> TRUE])
                /\ UNCHANGED <<got, waiters>>
           ELSE /\ waiters' = Append(waiters, k)
                /\ oss_pc' = [oss_pc EXCEPT ![k] = "Waiting"]
                /\ oss_log' = logged
                /\ UNCHANGED <<got, lock>>
    /\ UNCHANGED <<agent, non_oss_vars>>

\* the lock was released and k, the first waiter, runs with it
LockGranted(k) ==
    /\ oss_pc[k] = "Waiting"
    /\ lock = None
    /\ waiters # <<>> /\ Head(waiters) = k
    /\ waiters' = Tail(waiters)
    /\ InsideLock(k)
    /\ UNCHANGED <<agent, non_oss_vars>>

\* get_tools returned and create_agent built the agent: it is stored, the
\* lock released, the agent returned
AgentBuilt(k) ==
    /\ oss_pc[k] = "Fetching"
    /\ agent' = 1 + Len(SelectSeq(oss_log, LAMBDA ev : ev.op = "create_agent"))
    /\ oss_log' = Append(oss_log, [op |-> "create_agent", ok |-> TRUE])
    /\ lock' = None
    /\ oss_pc' = [oss_pc EXCEPT ![k] = "Done"]
    /\ got' = [got EXCEPT ![k] = agent']
    /\ UNCHANGED <<waiters, non_oss_vars>>

\* get_tools raised (or the task was cancelled in it): the with block
\* releases the lock, the exception leaves get_agent
GetToolsRaises(k) ==
    /\ oss_pc[k] = "Fetching"
    /\ oss_log' = Append(oss_log, [op |-> "get_tools raised", ok |-> FALSE])
    /\ lock' = None
    /\ oss_pc' = [oss_pc EXCEPT ![k] = "Failed"]
    /\ UNCHANGED <<agent, got, waiters, non_oss_vars>>

\* get_tools returned and create_agent raised
CreateAgentRaises(k) ==
    /\ oss_pc[k] = "Fetching"
    /\ oss_log' = Append(oss_log, [op |-> "create_agent", ok |-> FALSE])
    /\ lock' = None
    /\ oss_pc' = [oss_pc EXCEPT ![k] = "Failed"]
    /\ UNCHANGED <<agent, got, waiters, non_oss_vars>>

\* the caller has the agent (or the exception) and may call again
AgentReturned(k) ==
    /\ oss_pc[k] \in {"Done", "Failed"}
    /\ oss_pc' = [oss_pc EXCEPT ![k] = "Idle"]
    /\ got' = [got EXCEPT ![k] = 0]
    /\ UNCHANGED <<agent, lock, waiters, oss_log, non_oss_vars>>

NextAgent ==
    \/ \E k \in Callers : GetAgent(k)
    \/ \E k \in Callers : LockGranted(k)
    \/ \E k \in Callers : AgentBuilt(k)
    \/ \E k \in Callers : GetToolsRaises(k)
    \/ \E k \in Callers : CreateAgentRaises(k)
    \/ \E k \in Callers : AgentReturned(k)

SpecAgent == Init /\ [][NextAgent]_vars

(***************************************************************************)
(* Properties.                                                             *)
(***************************************************************************)
Range(f) == {f[i] : i \in DOMAIN f}
IsAssistant(msg) == msg.role = "assistant"
\* a tool-result turn: a user message whose content is a list of blocks
IsToolResultMsg(msg) == msg.role = "user" /\ msg.content.kind = "list"
ToolUsePositions(blocks) ==
    {j \in 1..Len(blocks) : blocks[j].type = "tool_use"}
\* the stored histories, and the histories a run has sent to the model
SentOrStored ==
    {histories[c] : c \in DOMAIN histories}
        \cup {history[r] : r \in {q \in Runs : pc[q] = "AwaitingModel"}}

\* C1: every tool_use block of an assistant message of a history is answered
\* in the next message by exactly one tool_result block with its id.
Answered(h, i) ==
    \A j \in ToolUsePositions(h[i].content.blocks) :
        /\ i < Len(h)
        /\ IsToolResultMsg(h[i + 1])
        /\ Cardinality({k \in 1..Len(h[i + 1].content.blocks) :
                           h[i + 1].content.blocks[k].tool_use_id
                               = h[i].content.blocks[j].id}) = 1
C1_RequestsAnswered ==
    \A h \in SentOrStored :
        \A i \in 1..Len(h) : IsAssistant(h[i]) => Answered(h, i)

\* C2: a tool call that raised left an is_error block with one text segment
\* telling the error, one that returned left an is_error=False block; either
\* way the block carries the request's id, the run did not raise, and when
\* the round is over its blocks are the last message and the next model
\* request is out.
RoundRequests(r) ==
    LET P == ToolUsePositions(content_blocks[r])
    IN  [i \in 1..Cardinality(P) |->
            content_blocks[r][CHOOSE p \in P :
                                 Cardinality({q \in P : q <= p}) = i]]
C2_BlockTellsOutcome(r, i) ==
    LET block == tool_results_blocks[r][i]
    IN  /\ block.tool_use_id = RoundRequests(r)[i].id
        /\ outcomes[r][i] = "returned" => block.is_error = FALSE
        /\ outcomes[r][i] = "raised" =>
              /\ block.is_error = TRUE
              /\ Len(block.content) = 1
              /\ "error" \in Range(block.content[1].text)
C2_ToolErrorSwallowed ==
    \A r \in Runs :
        /\ raised_by[r] \in {None, "list_tools", "model", "cancel"}
        /\ pc[r] \in {"ExecutingTools", "AwaitingModel"} =>
              /\ Len(tool_results_blocks[r]) = Len(outcomes[r])
              /\ \A i \in 1..Len(outcomes[r]) : C2_BlockTellsOutcome(r, i)
        /\ (pc[r] = "ExecutingTools" /\ "raised" \in Range(outcomes[r])) =>
              pos[r] \in ToolUsePositions(content_blocks[r])
        /\ (pc[r] = "AwaitingModel" /\ outcomes[r] # <<>>) =>
              /\ Len(outcomes[r]) = Len(RoundRequests(r))
              /\ history[r][Len(history[r])]
                     = [role |-> "user",
                        content |-> [kind |-> "list", text |-> <<>>,
                                     blocks |-> tool_results_blocks[r]]]
C2_Witness ==
    \E r \in Runs :
        /\ pc[r] = "AwaitingModel"
        /\ "raised" \in Range(outcomes[r])
        /\ "returned" \in Range(outcomes[r])

\* C6 as stated: in a new conversation, one tool request answered by the
\* tool and then one Text block: the run returns exactly that text and the
\* stored history is user, assistant with the request, tool result, final
\* assistant.
C6_Scenario(r) ==
    /\ pc[r] = "Final"
    /\ loaded[r] = <<>>
    /\ Len(trace[r]) = 3
    /\ trace[r][1].ev = "reply"
    /\ trace[r][1].resp.stop_reason = "tool_use"
    /\ Cardinality(ToolUsePositions(trace[r][1].resp.content)) = 1
    /\ trace[r][2].ev = "returned"
    /\ trace[r][3].ev = "reply"
    /\ Len(trace[r][3].resp.content) = 1
    /\ trace[r][3].resp.content[1].type = "text"
C6_FourTurns(r) ==
    LET h == histories[chat_id[r]]
        request == trace[r][1].resp.content[
                       CHOOSE j \in ToolUsePositions(trace[r][1].resp.content) :
                           TRUE]
    IN  /\ chat_id[r] \in DOMAIN histories
        /\ Len(h) = 4
        /\ h[1] = [role |-> "user",
                   content |-> [kind |-> "str", text |-> user_text[r],
                                blocks |-> <<>>]]
        /\ h[2].role = "assistant"
        /\ h[2].content.blocks = trace[r][1].resp.content
        /\ IsToolResultMsg(h[3])
        /\ Len(h[3].content.blocks) = 1
        /\ h[3].content.blocks[1].type = "tool_result"
        /\ h[3].content.blocks[1].tool_use_id = request.id
        /\ h[3].content.blocks[1].is_error = FALSE
        /\ h[4].role = "assistant"
        /\ h[4].content.blocks = trace[r][3].resp.content
C6_Original ==
    \A r \in Runs :
        C6_Scenario(r) =>
            /\ final[r] = trace[r][3].resp.content[1].text
            /\ C6_FourTurns(r)

\* C6 as amended: the run returns that text without its leading and trailing
\* whitespace, or the fallback when nothing is left; the stored history is
\* the four turns.
NonBlank(s) == {i \in 1..Len(s) : s[i] \notin Whitespace}
\* t is s without its leading and trailing whitespace
IsStripped(t, s) ==
    /\ NonBlank(s) # {}
    /\ \E i, j \in NonBlank(s) :
          /\ \A k \in NonBlank(s) : i <= k /\ k <= j
          /\ t = SubSeq(s, i, j)
C6_ToolThenText ==
    \A r \in Runs :
        C6_Scenario(r) =>
            LET text == trace[r][3].resp.content[1].text
            IN  /\ IF NonBlank(text) = {}
                   THEN final[r] = <<"(no text returned)">>
                   ELSE IsStripped(final[r], text)
                /\ C6_FourTurns(r)
C6_Witness ==
    \E r \in Runs :
        /\ C6_Scenario(r)
        /\ final[r] = <<"a">>
        /\ Len(histories[chat_id[r]]) = 4

\* C8 as stated: the answer is the text blocks joined with newlines, and the
\* fallback exactly when that concatenation is empty; never the empty string.
C8_Joined(r) == JoinNL(Texts(content_blocks[r]))
C8_Original ==
    \A r \in Runs :
        pc[r] = "Final" =>
            /\ final[r] # <<>>
            /\ final[r] = IF C8_Joined(r) = <<>>
                          THEN <<"(no text returned)">>
                          ELSE C8_Joined(r)

\* C8 as amended: the answer is that concatenation without its leading and
\* trailing whitespace, and the fallback when nothing is left of it; never
\* the empty string.
C8_FinalText ==
    \A r \in Runs :
        pc[r] = "Final" =>
            /\ final[r] # <<>>
            /\ IF NonBlank(C8_Joined(r)) = {}
               THEN final[r] = <<"(no text returned)">>
               ELSE IsStripped(final[r], C8_Joined(r))
C8_Witness ==
    \E r \in Runs :
        /\ pc[r] = "Final"
        /\ Len(Texts(content_blocks[r])) = 2
        /\ final[r] = <<"a", NL, "b">>

\* C3: the stored history of a conversation is at most 20 messages and is the
\* end of the sequence of all messages of its completed exchanges, in order
\* and without gaps.
C3_StoredIsSuffix ==
    \A c \in ChatIds :
        LET h == IF c \in DOMAIN histories THEN histories[c] ELSE <<>>
            n == Len(full[c])
            k == IF n < 20 THEN n ELSE 20
        IN  /\ Len(h) <= 20
            /\ Len(h) = k
            /\ \A i \in 1..k : h[i] = full[c][n - k + i]
C3_Witness ==
    /\ pc["r1"] = "Final"
    /\ Len(full["c1"]) >= 24
    /\ Len(histories["c1"]) = 20
    /\ \E i \in 1..20 : IsToolResultMsg(histories["c1"][i])

\* C4: in every stored history and every history sent to the model, a
\* tool-result message comes right after the assistant message whose
\* tool_use blocks it answers.
RequestIds(msg) ==
    LET P == ToolUsePositions(msg.content.blocks)
    IN  [i \in 1..Cardinality(P) |->
            msg.content.blocks[CHOOSE p \in P :
                                  Cardinality({q \in P : q <= p}) = i].id]
ResultIds(msg) ==
    [k \in 1..Len(msg.content.blocks) |-> msg.content.blocks[k].tool_use_id]
C4_ResultsFollowRequests ==
    \A h \in SentOrStored :
        \A i \in 1..Len(h) :
            IsToolResultMsg(h[i]) =>
                /\ i > 1
                /\ IsAssistant(h[i - 1])
                /\ ResultIds(h[i]) = RequestIds(h[i - 1])

\* the exchanges of SpecSeq that returned their answer
SeqCompleted ==
    IF pc["r1"] \in {"Listing", "AwaitingModel", "ExecutingTools"}
    THEN started - failures - 1
    ELSE started - failures

\* C7 as stated: after 25 exchanges the stored history holds 20 messages and
\* the five oldest have been dropped.
C7_Original ==
    (pc["r1"] \in {"Idle", "Final"} /\ SeqCompleted = 25) =>
        /\ Len(histories["c1"]) = 20
        /\ Len(full["c1"]) - Len(histories["c1"]) = 5

\* C7 as amended: after 25 exchanges the stored history holds 20 messages,
\* the last 20 of the 50 or more the exchanges produced; the 30 or more
\* oldest have been dropped.
C7_After25Exchanges ==
    (pc["r1"] \in {"Idle", "Final"} /\ SeqCompleted = 25) =>
        LET n == Len(full["c1"])
        IN  /\ Len(histories["c1"]) = 20
            /\ n >= 50
            /\ \A i \in 1..20 : histories["c1"][i] = full["c1"][n - 20 + i]
C7_Witness ==
    /\ pc["r1"] = "Final"
    /\ SeqCompleted = 25
    /\ Len(full["c1"]) = 52

\* the entry of the histories mapping for c: whether there is one, and it
Entry(h, c) == IF c \in DOMAIN h THEN <<TRUE, h[c]>> ELSE <<FALSE, <<>>>>
\* run r returns its answer in this step
Commits(r) == pc[r] = "AwaitingModel" /\ pc'[r] = "Final"
\* run r takes this step
Steps(r) ==
    <<pc[r], history[r], pos[r], tool_results_blocks[r]>>
        # <<pc'[r], history'[r], pos'[r], tool_results_blocks'[r]>>

\* C5: the histories mapping changes only in the step that returns the
\* answer; a step in which a run raises or is cancelled, and every step
\* before it, leaves every entry, and the set of entries, as it was.
C5_OnlyCommitStores ==
    [][ /\ (histories' # histories) => \E r \in Runs : Commits(r)
        /\ \A r \in Runs :
              (Steps(r) /\ ~Commits(r)) =>
                  \A c \in ChatIds : Entry(histories', c) = Entry(histories, c)
        /\ \A r \in Runs :
              (pc[r] \in {"Listing", "AwaitingModel", "ExecutingTools"}
                  /\ pc'[r] \in {"Raised", "Cancelled"}) =>
                  histories' = histories
      ]_vars
C5_Witness ==
    \E r \in Runs :
        /\ pc[r] \in {"Raised", "Cancelled"}
        /\ raised_by[r] \in {"model", "cancel"}
        /\ loaded[r] # <<>>
        /\ Len(history[r]) >= Len(loaded[r]) + 2
        /\ histories[chat_id[r]] = loaded[r]

\* C9: a step of a run on one conversation leaves the entry of every other
\* conversation as it was, the history a run starts from is the entry of its
\* own conversation, and what it stores is its own history.
C9_OtherChatsUntouched ==
    [][ \A r \in Runs :
          Steps(r) =>
              /\ \A c \in ChatIds \ {chat_id'[r], chat_id[r]} :
                    Entry(histories', c) = Entry(histories, c)
              /\ (pc[r] = "Listing" /\ pc'[r] = "AwaitingModel") =>
                    history'[r] =
                        Entry(histories, chat_id[r])[2]
                            \o <<[role |-> "user",
                                  content |-> [kind |-> "str",
                                               text |-> user_text[r],
                                               blocks |-> <<>>]]>>
              /\ Commits(r) =>
                    /\ Len(history'[r]) <= 20 =>
                          histories'[chat_id[r]] = history'[r]
                    /\ Len(history'[r]) > 20 =>
                          histories'[chat_id[r]] =
                              SubSeq(history'[r], Len(history'[r]) - 19,
                                     Len(history'[r]))
      ]_vars
C9_Witness ==
    \E r, q \in Runs :
        /\ chat_id[r] # chat_id[q]
        /\ pc[r] = "Final"
        /\ pc[q] = "ExecutingTools"
        /\ loaded[q] # <<>>
        /\ histories[chat_id[q]] = loaded[q]
        /\ histories[chat_id[r]] = history[r]

\* C10 as stated: connect and close are idempotent, and the calls of the
\* client's enter and exit alternate, the first being an enter.
C10_Original ==
    \A i \in 1..Len(client_log) :
        client_log[i].op = IF i % 2 = 1 THEN "enter" ELSE "exit"

\* C10 as amended: enter is called only while not connected and exit only
\* while connected; the calls alternate, the first being an enter, except
\* that a call that raised is the one made again next.
C10_Idempotent ==
    /\ bridge_pc = "Entering" => ~connected
    /\ bridge_pc = "Exiting" => connected
    /\ client_log # <<>> => client_log[1].op = "enter"
    /\ \A i \in 1..(Len(client_log) - 1) :
          IF client_log[i].ok
          THEN client_log[i + 1].op # client_log[i].op
          ELSE client_log[i + 1].op = client_log[i].op
    /\ LET returned == {i \in 1..Len(client_log) : client_log[i].ok}
       IN  connected <=>
              /\ returned # {}
              /\ client_log[CHOOSE i \in returned :
                               \A j \in returned : j <= i].op = "enter"
C10_Witness ==
    /\ bridge_log = <<"connect", "connect", "close", "close">>
    /\ client_log = <<[op |-> "enter", ok |-> TRUE], [op |-> "exit", ok |-> TRUE]>>
    /\ bridge_pc = "Idle"

\* the calls in log named op
CallsOf(log, op) == {i \in 1..Len(log) : log[i] = op}
\* the calls of the client's enter or exit
ClientCalls(op) == {i \in 1..Len(client_log) : client_log[i].op = op}
\* the client is entered: its last call that returned is an enter
ClientEntered ==
    LET returned == {i \in 1..Len(client_log) : client_log[i].ok}
    IN  /\ returned # {}
        /\ client_log[CHOOSE i \in returned :
                         \A j \in returned : j <= i].op = "enter"

\* C11: main connects at most once and closes at most once; when main has
\* ended after a connect that succeeded, close was executed exactly once
\* (and called the client's exit once), however the try block ended; when
\* main has ended because connect raised, the client is not left entered.
C11_AcquiredAndReleasedOnce ==
    /\ Cardinality(CallsOf(bridge_log, "connect")) <= 1
    /\ Cardinality(CallsOf(bridge_log, "close")) <= 1
    /\ Cardinality(ClientCalls("enter")) <= 1
    /\ main_pc \in {"Closing", "Ended"} /\ main_exit \in MainExits =>
          /\ bridge_log = <<"connect", "close">>
          /\ main_pc = "Ended" => Cardinality(ClientCalls("exit")) = 1
    /\ main_pc = "Ended" /\ main_exit \notin MainExits =>
          /\ main_exit = "connect raised"
          /\ ~connected
          /\ ~ClientEntered
          /\ bridge_log = <<"connect">>
    /\ main_pc = "Polling" => connected /\ ClientEntered
C11_Witness ==
    /\ main_pc = "Ended"
    /\ main_exit = "interrupted"
    /\ pc["r1"] = "ExecutingTools"
    /\ client_log = <<[op |-> "enter", ok |-> TRUE], [op |-> "exit", ok |-> TRUE]>>
    /\ bridge_log = <<"connect", "close">>

\* run r's call of claude_tool_schemas returns in this step
SchemasReturned(r) == pc[r] = "Listing" /\ pc'[r] = "AwaitingModel"
\* run r calls claude_tool_schemas, which awaits client.list_tools(): the
\* query of the Tool Execution Service
QueriesService(r) == pc[r] = "Idle" /\ pc'[r] = "Listing"

\* C12 as stated: a refresh that succeeds stores the fetched listing, one
\* that raises leaves the snapshot as it was, and with a snapshot at hand
\* the schemas are obtained without a query of the service.
C12_Original ==
    [][ \A r \in Runs :
          /\ (pc[r] = "Listing" /\ fetched'[r].some) =>
                cached_tools' = fetched'[r]
          /\ (pc[r] = "Listing" /\ pc'[r] = "Raised" /\ ~fetched'[r].some) =>
                cached_tools' = cached_tools
          /\ cached_tools.some => ~QueriesService(r)
      ]_vars

\* C12 as amended: a refresh that succeeds stores the fetched listing and
\* one that raises leaves the snapshot as it was; every call for the
\* schemas queries the service, and the schemas it returns are those of the
\* listing that query fetched, never those of an older snapshot.
C12_RefreshedEveryCall ==
    [][ /\ \A r \in Runs :
              /\ (pc[r] = "Listing" /\ fetched'[r].some) =>
                    cached_tools' = fetched'[r]
              /\ (pc[r] = "Listing" /\ pc'[r] = "Raised"
                     /\ ~fetched'[r].some) =>
                    cached_tools' = cached_tools
              /\ SchemasReturned(r) =>
                    /\ fetched'[r].some
                    /\ tools'[r] = ClaudeToolSchemas(fetched'[r].tools).schemas
              /\ (tools'[r] # tools[r]) =>
                    SchemasReturned(r) \/ pc'[r] = "Idle"
        /\ (cached_tools' # cached_tools) =>
              \E r \in Runs : pc[r] = "Listing" /\ fetched'[r].some
      ]_vars
\* a later exchange, whose call found a snapshot, has obtained the schemas
\* of the listing it fetched
C12_Witness ==
    /\ pc["r1"] = "AwaitingModel"
    /\ histories # <<>>
    /\ cached_tools = Snapshot(<<Tool(<<"quote">>), Tool(<<"news">>)>>)
    /\ Len(tools["r1"]) = 2
    /\ started = 3

\* C13: in every schema list a call of claude_tool_schemas returned, each
\* entry's name is non-empty and no two entries share a name.
C13_NamesNonEmptyAndUnique ==
    \A r \in Runs :
        /\ \A i \in 1..Len(tools[r]) :
              /\ tools[r][i].name.kind = "str"
              /\ tools[r][i].name.val # <<>>
        /\ \A i, j \in 1..Len(tools[r]) :
              tools[r][i].name = tools[r][j].name => i = j

\* the descriptor has a name: its name field is a string that is not empty
Resolvable(t) == t.name.kind = "str" /\ t.name.val # <<>>
\* the description a descriptor asks for: its own, or the empty one
DescriptionOrEmpty(t) ==
    IF t.description.kind = "str" THEN t.description ELSE EmptyStr

\* C14: claude_tool_schemas never raises because of a descriptor, of either
\* style; the list it returns holds the descriptors that have a name, in
\* their order, and a missing or empty description is the empty description.
C14_DescriptorsAccepted ==
    \A r \in Runs :
        /\ raised_by[r] # "schemas"
        /\ (fetched[r].some /\ pc[r] \in {"AwaitingModel", "Final"}) =>
              LET named == SelectSeq(fetched[r].tools, Resolvable)
              IN  /\ Len(tools[r]) = Len(named)
                  /\ \A i \in 1..Len(named) :
                        /\ tools[r][i].name = named[i].name
                        /\ tools[r][i].description =
                               DescriptionOrEmpty(named[i])

\* the tool calls of run r that raised, as recorded
RaisedCalls(r) == {i \in 1..Len(trace[r]) : trace[r][i].ev = "raised"}
\* the error blocks of the messages of h
ErrorBlocks(h) ==
    UNION { {h[i].content.blocks[k] : k \in 1..Len(h[i].content.blocks)} :
                i \in {j \in 1..Len(h) : IsToolResultMsg(h[j])} }

\* C15 as stated: when the remote call raises, what call_tool raises is a
\* ToolExecutionError that carries the tool's name and the cause.
C15_Original ==
    \A r \in Runs : \A i \in RaisedCalls(r) :
        /\ trace[r][i].caught.type = "ToolExecutionError"
        /\ trace[r][i].caught.name = trace[r][i].name
        /\ trace[r][i].caught.cause = trace[r][i].e

\* C15 as amended: when the remote call raises, call_tool raises that same
\* exception, which carries no tool name and no cause; the text of the error
\* block is "Tool error: " and the repr of the remote exception.
C15_RemoteExceptionEscapes ==
    \A r \in Runs :
        /\ \A i \in RaisedCalls(r) :
              trace[r][i].caught = Raised(trace[r][i].e, None, None)
        /\ \A b \in ErrorBlocks(history[r]) :
              b.is_error =>
                 \E e \in Exceptions :
                    b.content = <<TextSegment(ToolErrorText(e))>>
C15_Witness ==
    /\ pc["r1"] = "AwaitingModel"
    /\ RaisedCalls("r1") # {}
    /\ \E b \in ErrorBlocks(history["r1"]) : b.is_error

\* the tool calls of run r that returned, as recorded
ReturnedCalls(r) == {i \in 1..Len(trace[r]) : trace[r][i].ev = "returned"}
\* segs is a list of at least one text segment
TextSegments(segs) ==
    /\ Len(segs) >= 1
    /\ \A k \in 1..Len(segs) : DOMAIN segs[k] = {"type", "text"}
    /\ \A k \in 1..Len(segs) : segs[k].type = "text"

\* C16: for every raw result a tool call returned, whatever its shape, the
\* normalisation yields a list of at least one text segment, and the block
\* built from it is no error block: the computation did not raise.
C16_NormalizationTotal ==
    \A r \in Runs :
        /\ \A i \in ReturnedCalls(r) :
              TextSegments(ContentSegments(trace[r][i].mcp_result))
        /\ pc[r] \in {"ExecutingTools", "AwaitingModel"} =>
              \A i \in 1..Len(outcomes[r]) :
                  outcomes[r][i] = "returned" =>
                      /\ ~tool_results_blocks[r][i].is_error
                      /\ TextSegments(tool_results_blocks[r][i].content)
\* an empty content list and data that json.dumps refuses: one segment, the
\* repr of the data
C16_Witness ==
    /\ pc["r1"] = "AwaitingModel"
    /\ outcomes["r1"] = <<"returned">>
    /\ trace["r1"][Len(trace["r1"])].mcp_result.has_content
    /\ trace["r1"][Len(trace["r1"])].mcp_result.content = <<>>
    /\ ~trace["r1"][Len(trace["r1"])].mcp_result.data.ser
    /\ tool_results_blocks["r1"][1].content
          = <<TextSegment(Repr(<<"data">>))>>

\* C17: a run raises to its caller only out of the tool listing (the query
\* or the conversion to schemas) or out of a model request; the step in
\* which a tool call raises leaves the run in its loop, with an error block
\* for the request, and a run some of whose tool calls raised still returns
\* its answer unless a later model request fails.
C17_OnlyUpstreamFailuresEscape ==
    \A r \in Runs :
        /\ pc[r] = "Raised" =>
              /\ raised_by[r] \in {"list_tools", "schemas", "model"}
              /\ raised_by[r] \in {"list_tools", "schemas"} => trace[r] = <<>>
              /\ raised_by[r] = "model" =>
                    (trace[r] = <<>> \/ trace[r][Len(trace[r])].ev # "reply"
                        \/ trace[r][Len(trace[r])].resp.stop_reason = "tool_use")
        /\ pc[r] # "Raised" => raised_by[r] \in {None, "cancel"}
        /\ (trace[r] # <<>> /\ trace[r][Len(trace[r])].ev = "raised") =>
              /\ pc[r] \in {"ExecutingTools", "AwaitingModel", "Raised",
                            "Cancelled"}
              /\ pc[r] = "Raised" => raised_by[r] = "model"
              /\ tool_results_blocks[r] # <<>>
              /\ pc[r] \in {"ExecutingTools", "AwaitingModel"} =>
                    tool_results_blocks[r][Len(tool_results_blocks[r])].is_error
\* a tool call raised and the run returned its answer
C17_Witness ==
    /\ pc["r1"] = "Final"
    /\ RaisedCalls("r1") # {}
    /\ final["r1"] = <<"a">>

\* C18: the text sent to the user for a failed exchange does not depend on
\* the exception: any two failed exchanges are answered with the same text.
C18_FailureReplyGeneric ==
    \A r, q \in Runs :
        (pc[r] = "Raised" /\ pc[q] = "Raised") => Reply(r) = Reply(q)

\* the positions of the log where create_agent returned an agent
Builds == {i \in 1..Len(oss_log) :
              oss_log[i].op = "create_agent" /\ oss_log[i].ok}

\* C19: get_agent fetches the tools and builds the agent only once.  After a
\* build has succeeded neither get_tools nor create_agent is called again,
\* every caller that get_agent returned to holds the one agent object, and
\* no two callers are inside the build at the same time.
C19_AgentBuiltOnce ==
    /\ \A i \in Builds : \A j \in (i + 1)..Len(oss_log) :
           oss_log[j].op \notin {"get_tools", "create_agent"}
    /\ Cardinality(Builds) <= 1
    /\ (agent # 0) = (Builds # {})
    /\ \A k \in Callers : oss_pc[k] = "Done" => got[k] = agent /\ agent # 0
    /\ Cardinality({k \in Callers : oss_pc[k] = "Fetching"}) <= 1
    /\ \A k \in Callers : oss_pc[k] = "Fetching" => lock = k

\* two calls were made before the build succeeded, one after it, and every
\* caller has the agent
C19_Witness ==
    /\ \A k \in Callers : oss_pc[k] = "Done" /\ got[k] = agent
    /\ \E i \in Builds :
           /\ Len(SelectSeq(SubSeq(oss_log, 1, i),
                            LAMBDA ev : ev.op = "get_agent")) >= 2
           /\ \E j \in (i + 1)..Len(oss_log) : oss_log[j].op = "get_agent"

\* the model's last turn of run r signalled tool use and holds no tool_use
\* block
EmptyToolUseTurn(r) ==
    /\ trace[r] # <<>>
    /\ trace[r][Len(trace[r])].ev = "reply"
    /\ trace[r][Len(trace[r])].resp.stop_reason = "tool_use"
    /\ NextToolUse(trace[r][Len(trace[r])].resp.content, 1) = 0

\* C20: a turn that signals tool use and holds no tool-invocation request is
\* terminal: after it no tool-result message is appended, no further model
\* request is outstanding, and the turn's text has been returned.
C20_EmptyToolUseTerminal ==
    \A r \in Runs :
        EmptyToolUseTurn(r) =>
            /\ pc[r] # "AwaitingModel"
            /\ history[r][Len(history[r])] # UserToolMsg(<<>>)
            /\ pc[r] = "Final" =>
                   final[r] = FinalText(trace[r][Len(trace[r])].resp.content)

\* C21: a turn that signals tool use and yields no invocation request fails
\* the round: the run has raised a protocol error to its caller, and the
\* stored history is the one the run read at its start.
C21_EmptyToolUseFails ==
    \A r \in Runs :
        EmptyToolUseTurn(r) =>
            /\ pc[r] = "Raised"
            /\ raised_by[r] = "protocol"
            /\ Get(histories, chat_id[r]) = loaded[r]

\* the tool outcomes run r received since the model's last reply
RoundEvents(r) ==
    LET R == {i \in 1..Len(trace[r]) : trace[r][i].ev = "reply"}
        last == CHOOSE i \in R : \A j \in R : j <= i
    IN  SubSeq(trace[r], last + 1, Len(trace[r]))
\* the result block of the request with this id, given how its call ended
BlockFor(id, ev) ==
    IF ev.ev = "returned" THEN OkResultBlock(id, ev.mcp_result)
    ELSE ErrorResultBlock(id, ExcRepr(ev.caught))
\* the positions of the messages run r appended after its user turn
AppendedBy(r) == (Len(loaded[r]) + 2)..Len(history[r])

\* C22: a tool-result turn appended by the loop follows the assistant turn it
\* answers and holds one tool_result block per tool_use block of that turn
\* and nothing else, the i-th block with the i-th request's id; each block is
\* computed from the outcome of its own call, also when requests share an id.
C22_ResultPerRequest ==
    \A r \in Runs :
        /\ \A i \in AppendedBy(r) :
              IsToolResultMsg(history[r][i]) =>
                  /\ IsAssistant(history[r][i - 1])
                  /\ ResultIds(history[r][i]) = RequestIds(history[r][i - 1])
                  /\ \A k \in 1..Len(history[r][i].content.blocks) :
                        history[r][i].content.blocks[k].type = "tool_result"
        /\ (/\ pc[r] = "AwaitingModel"
            /\ AppendedBy(r) # {}
            /\ IsToolResultMsg(history[r][Len(history[r])])) =>
              LET n == Len(history[r])
                  b == history[r][n].content.blocks
                  ids == RequestIds(history[r][n - 1])
                  ev == RoundEvents(r)
              IN  /\ Len(ev) = Len(b)
                  /\ \A k \in 1..Len(b) : b[k] = BlockFor(ids[k], ev[k])

\* two requests with the same id were answered, one by an error and one by a
\* result
C22_Witness ==
    \E r \in Runs :
        /\ pc[r] = "AwaitingModel"
        /\ AppendedBy(r) # {}
        /\ IsToolResultMsg(history[r][Len(history[r])])
        /\ LET b == history[r][Len(history[r])].content.blocks
           IN  /\ Len(b) = 2
               /\ b[1].tool_use_id = b[2].tool_use_id
               /\ b[1].is_error /\ ~b[2].is_error

\* the model's last reply to run r
LastReply(r) ==
    LET R == {i \in 1..Len(trace[r]) : trace[r][i].ev = "reply"}
    IN  trace[r][CHOOSE i \in R : \A j \in R : j <= i].resp
\* the positions of the tool_use blocks, in emission order
RequestPositions(blocks) ==
    LET P == ToolUsePositions(blocks)
    IN  [i \in 1..Cardinality(P) |->
            CHOOSE p \in P : Cardinality({q \in P : q <= p}) = i]
\* the calls of call_tool that have ended since the last reply are those of
\* the first n requests of the turn, one each, in emission order
InvokedFirst(r, n) ==
    /\ Len(RoundEvents(r)) = n
    /\ n <= Len(RequestPositions(LastReply(r).content))
    /\ \A k \in 1..n :
          RoundEvents(r)[k].at = RequestPositions(LastReply(r).content)[k]

CarriesSnapshot(kwargs, r) ==
    /\ kwargs.tools = ClaudeToolSchemas(fetched[r].tools).schemas
    /\ kwargs.tool_choice.disable_parallel_tool_use = TRUE
\* the requests of run r: those answered and the one outstanding
RequestsOf(r) ==
    {trace[r][i].kwargs :
        i \in {j \in 1..Len(trace[r]) : trace[r][j].ev = "reply"}}
      \cup (IF pc[r] = "AwaitingModel" THEN {Kwargs(r)} ELSE {})

\* C24: a run queries the catalog once, before its first model request, and
\* every model request of the run, in every round, carries the schemas of
\* that one listing and the tool choice that disables parallel tool use;
\* the listing a run holds changes in no step between its query and its end,
\* whatever other runs fetch meanwhile.
C24_OneSnapshotPerRun ==
    [][ \A r \in Runs :
          /\ pc'[r] \in {"AwaitingModel", "ExecutingTools", "Final"} =>
                /\ fetched'[r].some
                /\ \A kwargs \in RequestsOf(r)' : CarriesSnapshot(kwargs, r)'
          /\ fetched'[r] # fetched[r] => pc[r] = "Listing" \/ pc'[r] = "Idle"
          /\ tools'[r] # tools[r] => pc[r] = "Listing" \/ pc'[r] = "Idle"
      ]_vars

\* a run is in its second round with the snapshot of its own listing while
\* the bridge's cache holds the other listing another run fetched since
C24_Witness ==
    \E r \in Runs :
        /\ pc[r] = "AwaitingModel"
        /\ Cardinality(RequestsOf(r)) = 2
        /\ cached_tools # fetched[r]
        /\ \A kwargs \in RequestsOf(r) : CarriesSnapshot(kwargs, r)

\* the steps of the state machine of a run
LoopSteps ==
    { <<"Idle", "Listing">>, <<"Listing", "AwaitingModel">>,
      <<"AwaitingModel", "Final">>, <<"AwaitingModel", "ExecutingTools">>,
      <<"ExecutingTools", "AwaitingModel">>, <<"Final", "Idle">> }

\* C25: a run goes from AwaitingModel to Final or to the execution of the
\* requested tools and from there back to AwaitingModel (a turn that signals
\* tool use and holds no request goes back at once); Final is entered only
\* in the step in which a model response without the tool-use signal
\* arrives; and when every request and tool call comes back and the model
\* stops asking for tools, a run that awaits the model or a tool reaches
\* Final.
C25_RunTerminates ==
    /\ [][ \A r \in Runs :
             /\ pc'[r] # pc[r] => <<pc[r], pc'[r]>> \in LoopSteps
             /\ (pc'[r] = "Final" /\ pc[r] # "Final") =>
                   /\ pc[r] = "AwaitingModel"
                   /\ Len(trace'[r]) = Len(trace[r]) + 1
                   /\ trace'[r][Len(trace'[r])].ev = "reply"
                   /\ trace'[r][Len(trace'[r])].resp.stop_reason # "tool_use"
         ]_vars
    /\ \A r \in Runs :
          (pc[r] \in {"Listing", "AwaitingModel", "ExecutingTools"})
              ~> (pc[r] = "Final")

\* a run returned its answer after as many tool rounds as the model was
\* allowed, the last of them with two tool calls
C25_Witness ==
    /\ pc["r1"] = "Final"
    /\ started = 1
    /\ tool_rounds = MaxLiveToolRounds
    /\ Len(history["r1"]) = 2 * MaxLiveToolRounds + 2
    /\ Len(history["r1"][Len(history["r1"]) - 1].content.blocks) = 2

\* the raw results call_tool returned to run r that carry a content list
ListResults(r) ==
    {trace[r][i].mcp_result :
        i \in {j \in ReturnedCalls(r) : trace[r][j].mcp_result.has_content}}

\* C26 as stated: a result with a content list is normalised to one text
\* segment per segment of the list, in order: the text of a text-tagged
\* mapping, the JSON text of any other mapping, a plain string unchanged.
C26_Original ==
    \A r \in Runs : \A res \in ListResults(r) :
        /\ Len(ContentSegments(res)) = Len(res.content)
        /\ \A k \in 1..Len(res.content) :
              LET seg == res.content[k]
                  out == ContentSegments(res)[k]
              IN  /\ seg.kind \in {"text", "str"} => out = TextSegment(seg.val)
                  /\ seg.kind = "dict" => out = TextSegment(JsonDumps(seg.val))

\* C26 as amended: a result with a content list that is not empty is
\* normalised to one text segment per segment of the list, in order: the
\* text of a text-tagged mapping, a plain string unchanged, and for any other
\* mapping its JSON text when json.dumps accepts it and its str() text when
\* json.dumps refuses it.
C26_SegmentPerSegment ==
    \A r \in Runs : \A res \in ListResults(r) :
        res.content # <<>> =>
            /\ Len(ContentSegments(res)) = Len(res.content)
            /\ \A k \in 1..Len(res.content) :
                  LET seg == res.content[k]
                      out == ContentSegments(res)[k]
                  IN  /\ DOMAIN out = {"type", "text"} /\ out.type = "text"
                      /\ seg.kind \in {"text", "str"} => out.text = seg.val
                      /\ (seg.kind = "dict" /\ seg.ser) =>
                            out.text = JsonDumps(seg.val)
                      /\ (seg.kind = "dict" /\ ~seg.ser) =>
                            out.text = <<"str", seg.val>>

\* a content list with a text-tagged mapping, a mapping json.dumps accepts,
\* one it refuses and a plain string was normalised into the result block
C26_Witness ==
    /\ pc["r1"] = "AwaitingModel"
    /\ outcomes["r1"] = <<"returned">>
    /\ \E res \in ListResults("r1") :
          /\ {res.content[k].kind : k \in 1..Len(res.content)}
                = {"text", "dict", "str", "obj"}
          /\ \E k \in 1..Len(res.content) :
                res.content[k].kind = "dict" /\ ~res.content[k].ser
          /\ tool_results_blocks["r1"][1].content = ContentSegments(res)
          /\ Len(tool_results_blocks["r1"][1].content) = Len(res.content)

\* the first of data, structured_content and content that exists (is there
\* and is not None), else the result itself
FirstExisting(res) ==
    IF res.data.kind # "none" THEN res.data
    ELSE IF res.structured_content.kind # "none" THEN res.structured_content
    ELSE IF ~res.has_content /\ res.content_other.kind # "none"
         THEN res.content_other
    ELSE res.self

\* C27: a result without a content list, or with one that gives no segment,
\* is normalised to exactly one text segment, the text of the first value
\* that exists among data, structured_content, content and the result
\* itself, also when that value is falsy.
C27_FirstExistingValue ==
    \A r \in Runs : \A i \in ReturnedCalls(r) :
        LET res == trace[r][i].mcp_result
        IN  MappedContent(res) = <<>> =>
                ContentSegments(res)
                    = <<TextSegment(TextPayload(FirstExisting(res)))>>

\* the positions of the model's replies in the record of run r
Replies(r) == {i \in 1..Len(trace[r]) : trace[r][i].ev = "reply"}
\* s is the beginning of t
IsPrefix(s, t) == Len(s) <= Len(t) /\ SubSeq(t, 1, Len(s)) = s
\* the history sent with the request that reply i answers, and that history
\* with the reply's turn, as emitted, appended
SentIn(r, i) == trace[r][i].kwargs.messages
WithTurn(r, i) ==
    Append(SentIn(r, i),
           [role |-> "assistant",
            content |-> [kind |-> "list", text |-> <<>>,
                         blocks |-> trace[r][i].resp.content]])

\* C28: the working history only grows at its end.  The first request holds
\* the stored history and the user turn; every later request holds the
\* history of the request before it, the model's turn as emitted and one
\* tool-result turn, and nothing else; whatever was sent is still the
\* beginning of the working history; and until the run stores its result the
\* stored list is what the run read at its start.
C28_AppendOnly ==
    \A r \in Runs :
        /\ pc[r] \in {"AwaitingModel", "ExecutingTools", "Final"} =>
              IsPrefix(loaded[r] \o <<UserMsg(user_text[r])>>, history[r])
        /\ pc[r] \in {"AwaitingModel", "ExecutingTools"} =>
              Get(histories, chat_id[r]) = loaded[r]
        /\ \A i \in Replies(r) :
              /\ IsPrefix(WithTurn(r, i), history[r])
              /\ (\A j \in Replies(r) : i <= j) =>
                    SentIn(r, i) = loaded[r] \o <<UserMsg(user_text[r])>>
              /\ \A j \in Replies(r) :
                    (i < j /\ \A k \in Replies(r) : ~(i < k /\ k < j)) =>
                        /\ Len(SentIn(r, j)) = Len(SentIn(r, i)) + 2
                        /\ IsPrefix(WithTurn(r, i), SentIn(r, j))
                        /\ IsToolResultMsg(SentIn(r, j)[Len(SentIn(r, j))])
              /\ (pc[r] = "AwaitingModel" /\ \A j \in Replies(r) : j <= i) =>
                    /\ Len(history[r]) = Len(SentIn(r, i)) + 2
                    /\ IsToolResultMsg(history[r][Len(history[r])])
              /\ (pc[r] = "Final" /\ \A j \in Replies(r) : j <= i) =>
                    history[r] = WithTurn(r, i)

\* a run that began from a stored history has its third request out
C28_Witness ==
    \E r \in Runs :
        /\ pc[r] = "AwaitingModel"
        /\ loaded[r] # <<>>
        /\ Cardinality(Replies(r)) = 2
        /\ Len(history[r]) = Len(loaded[r]) + 5
        /\ \E i \in Replies(r) :
              Cardinality(ToolUsePositions(trace[r][i].resp.content)) = 2

\* h is the history ld a run read, then the run's own turns and nothing
\* else: its user turn, and for each reply of its record tr, in order, the
\* model's turn, followed by a tool-result turn for every reply but the last
OwnExchange(h, ld, text, tr) ==
    LET R == {i \in 1..Len(tr) : tr[i].ev = "reply"}
        nth(k) == CHOOSE i \in R : Cardinality({j \in R : j <= i}) = k
    IN  /\ Len(h) = Len(ld) + 2 * Cardinality(R)
        /\ SubSeq(h, 1, Len(ld) + 1) = ld \o <<UserMsg(text)>>
        /\ \A k \in 1..Cardinality(R) :
              /\ h[Len(ld) + 2 * k].role = "assistant"
              /\ h[Len(ld) + 2 * k].content.blocks = tr[nth(k)].resp.content
              /\ k < Cardinality(R) => IsToolResultMsg(h[Len(ld) + 2 * k + 1])

\* C29: whenever the entry of a conversation changes, one run stores in that
\* step, and what it stores is the last 20 messages of the history that run
\* read at its start followed by that run's own turns, contiguous and in
\* order, whatever another run on the same conversation did in between.
C29_StoredIsOneRunsHistory ==
    [][ \A c \in ChatIds :
          Entry(histories', c) # Entry(histories, c) =>
              \E r \in Runs :
                  /\ Commits(r)
                  /\ chat_id[r] = c
                  /\ histories'[c] = LastN(history'[r], KeepLast)
                  /\ OwnExchange(history'[r], loaded[r], user_text[r],
                                 trace'[r])
      ]_vars

\* two runs of the same conversation read the same stored history; both have
\* stored, and the stored list holds the exchange of one of them only
C29_Witness ==
    /\ chat_id["r1"] = chat_id["r2"]
    /\ pc["r1"] = "Final" /\ pc["r2"] = "Final"
    /\ loaded["r1"] = loaded["r2"]
    /\ Len(histories[chat_id["r1"]]) < KeepLast
    /\ Len(full[chat_id["r1"]]) > Len(histories[chat_id["r1"]])
    /\ \E r \in Runs : histories[chat_id[r]] = history[r]

\* C30: with one exchange at a time, every stored history has an even number
\* of messages whose roles alternate, beginning with a user-role message (the
\* user's text or a tool-result turn) and ending with an assistant message;
\* every exchange appended an even number of messages, so the cut to the last
\* 20 keeps that shape.
C30_StoredAlternates ==
    /\ \A c \in DOMAIN histories :
          /\ Len(histories[c]) % 2 = 0
          /\ Len(histories[c]) > 0
          /\ \A i \in 1..Len(histories[c]) :
                histories[c][i].role = IF i % 2 = 1 THEN "user" ELSE "assistant"
    /\ \A c \in ChatIds : Len(full[c]) % 2 = 0

\* the history has outgrown the 20 messages kept and the cut fell inside an
\* exchange: the stored list begins with that exchange's tool-result turn
C30_Witness ==
    /\ pc["r1"] = "Final"
    /\ Len(full["c1"]) > Len(histories["c1"])
    /\ Len(histories["c1"]) = KeepLast
    /\ IsToolResultMsg(histories["c1"][1])
    /\ IsAssistant(histories["c1"][KeepLast])

\* the last thing run r received is a reply of the model
RepliedLast(r) ==
    trace[r] # <<>> /\ trace[r][Len(trace[r])].ev = "reply"

NotOnList(user) == allowed_ids # {} /\ user \notin allowed_ids

\* C32: a message of a user who is not on a non-empty allow-list starts no
\* run: no handler works on such a message, a run is started only for the
\* message of a user the list allows, and the step that answers such a user
\* sends the restriction reply and changes nothing else: no run, no model
\* request, no tool call, no stored history.  The restriction reply goes to
\* such users only, so with an empty list nobody is refused.
C32_BlockedUserStartsNothing ==
    [][ /\ allowed_ids' = allowed_ids
        /\ \A r \in Runs :
              /\ message'[r].some => ~NotOnList(message'[r].user)
              /\ (pc[r] = "Idle" /\ pc'[r] # "Idle") =>
                    /\ message[r].some
                    /\ ~NotOnList(message[r].user)
                    /\ chat_id'[r] = message[r].chat
        /\ sent' # sent =>
              /\ Len(sent') = Len(sent) + 1
              /\ SubSeq(sent', 1, Len(sent)) = sent
              /\ (sent'[Len(sent')].text = Restricted)
                    = NotOnList(sent'[Len(sent')].user)
              /\ NotOnList(sent'[Len(sent')].user) =>
                    UNCHANGED <<loop_vars, store_vars, cached_tools,
                                count_vars, message>>
      ]_vars

\* with user 1 alone on the list, user 2 was refused and user 1 answered
C32_Witness ==
    /\ allowed_ids = {1}
    /\ \E i, j \in 1..Len(sent) :
          /\ sent[i].user = 2 /\ sent[i].text = Restricted
          /\ sent[j].user = 1 /\ sent[j].text # Restricted
    /\ "c1" \in DOMAIN histories
    /\ "c2" \notin DOMAIN histories

\* bot.py's call has raised out of messages.create and main_claude.py's call
\* has not been given that outcome yet
ModelRaisePending ==
    /\ pc["r1"] = "Raised" /\ raised_by["r1"] = "model"
    /\ cli.pc = "AwaitingModel"

\* C33: bot.py's and main_claude.py's ask_claude_with_mcp, started on equal
\* stored histories with the same user text and given the same listing, model
\* responses and tool outcomes, behave alike.  The model requests and tool
\* invocations main_claude.py's call has made are those bot.py's call made,
\* in the same order; the outcome it is given next finds it where bot.py's
\* call was (at a model request, or at the call of the same tool_use block);
\* once both have taken the same outcomes they are at the same point, with
\* the same request outstanding, the same answer returned or the same place
\* raised; and whenever both are between calls or have ended, the two stored
\* histories are equal.
C33_LoopsEquivalent ==
    /\ pc["r1"] # "Idle" =>
          /\ Len(cli.trace) <= Len(trace["r1"])
          /\ \A i \in 1..Len(cli.trace) : cli.trace[i] = trace["r1"][i]
    /\ (pc["r1"] # "Idle" /\ Len(cli.trace) < Len(trace["r1"])) =>
          IF NextOutcome.ev = "reply"
          THEN cli.pc = "AwaitingModel" /\ CliKwargs = NextOutcome.kwargs
          ELSE cli.pc = "ExecutingTools" /\ cli.pos = NextOutcome.at
    /\ (pc["r1"] # "Idle" /\ Abreast /\ ~ModelRaisePending) =>
          /\ cli.pc = pc["r1"]
          /\ cli.final = final["r1"]
          /\ cli.raised_by = raised_by["r1"]
          /\ cli.pc = "AwaitingModel" => CliKwargs = Kwargs("r1")
          /\ cli.pc = "ExecutingTools" =>
                /\ cli.pos = pos["r1"]
                /\ cli.content_blocks = content_blocks["r1"]
                /\ cli.tool_results_blocks = tool_results_blocks["r1"]
    /\ (pc["r1"] = "Raised" /\ cli.pc \in {"Final", "Raised"}) =>
          cli.pc = "Raised" /\ cli.raised_by = raised_by["r1"]
    /\ (pc["r1"] \in {"Idle", "Final", "Raised"}
          /\ cli.pc \in {"Idle", "Final", "Raised"}) =>
          cli_histories = histories

\* both calls have returned the same answer after a round with a tool call
\* that returned and one that raised, on a stored history that was not empty
C33_Witness ==
    /\ pc["r1"] = "Final" /\ cli.pc = "Final"
    /\ loaded["r1"] # <<>>
    /\ cli.trace = trace["r1"]
    /\ \E i, j \in 1..Len(cli.trace) :
          cli.trace[i].ev = "returned" /\ cli.trace[j].ev = "raised"
    /\ cli.final = final["r1"]
    /\ "c1" \in DOMAIN cli_histories
    /\ cli_histories = histories

=============================================================================
